---- MODULE Spec2Model ----
(***************************************************************************)
(* A model of sentry.tsdb.inmemory.InMemoryTSDB: the counter, set and      *)
(* frequency stores, their writes, merges, deletes and range reads.        *)
(* The rollup schedule and the epoch helpers live in sentry.tsdb.base,     *)
(* which is not part of the sources at hand; they follow the written       *)
(* specification (sections 3 and 4.1).                                     *)
(***************************************************************************)
EXTENDS Integers, Sequences, FiniteSets, TLC

VARIABLES
    data,         \* self.data[model][(key, environment_id)][bucket] = count
    sets,         \* self.sets[model][(key, environment_id)][bucket] = set of members
    frequencies,  \* self.frequencies[model][(key, environment_id)][bucket] = Counter
    pre,          \* the three stores as they were before the last call
    last,         \* the last call: its arguments, its result, the error it raised
    written,      \* the <<model, key, environment, granularity, epoch>> incr has written,
                  \* and those with the member record_frequency_multi has written
    nops,         \* number of calls made
    threads,      \* incr and merge run as threads: where each is, what it holds
    sourcecache,  \* a SourceCache: its _cache, _errors and _aliases
    sso           \* the rows the auth provider endpoint works on, and its audit log

vars == <<data, sets, frequencies, pre, last, written, nops, threads, sourcecache, sso>>

Stores == [data |-> data, sets |-> sets, frequencies |-> frequencies]

-----------------------------------------------------------------------------
(* Bounds of the model *)

MaxOps == 3
MaxTime == 4

(* The universe the operations draw their arguments from *)

None == "None"
Models == {"m1", "m2"}
Keys == {"A", "B"}
ConcreteEnvs == {"e1", "e2"}
Envs == ConcreteEnvs \cup {None}
Times == 0 .. MaxTime
Members == {"u1", "u2"}
FrequencyMembers == Members \cup {"u3"}

-----------------------------------------------------------------------------
(* sentry.utils.dates and sentry.tsdb.base *)

\* a datetime is a value distinct from the number of seconds it stands for
to_datetime(secs) == [secs |-> secs]

to_timestamp(dt) == dt.secs

\* the schedule: <<granularity in seconds, retained buckets>>, finest first
rollups == << <<2, 2>>, <<4, 2>> >>

Granularities == {rollups[i][1] : i \in DOMAIN rollups}

\* floor(timestamp / granularity) * granularity
normalize_ts_to_rollup(epoch, seconds) == (epoch \div seconds) * seconds

normalize_to_rollup(timestamp, seconds) ==
    normalize_ts_to_rollup(to_timestamp(timestamp), seconds)

\* the finest granularity whose retention covers the range, else the coarsest
RECURSIVE optimal_from(_, _)
optimal_from(i, num_seconds) ==
    IF i >= Len(rollups) THEN rollups[Len(rollups)][1]
    ELSE IF rollups[i][1] * rollups[i][2] >= num_seconds THEN rollups[i][1]
    ELSE optimal_from(i + 1, num_seconds)

get_optimal_rollup(start, end) ==
    optimal_from(1, to_timestamp(end) - to_timestamp(start))

\* every bucket epoch of the granularity that overlaps [start, end), ascending
RECURSIVE series_from(_, _, _)
series_from(epoch, end, rollup) ==
    IF epoch >= end THEN << >>
    ELSE <<epoch>> \o series_from(epoch + rollup, end, rollup)

get_optimal_rollup_series(start, end, rollup) ==
    <<rollup,
      series_from(normalize_to_rollup(start, rollup), to_timestamp(end), rollup)>>

\* rollup -> datetimes of the bucket epochs overlapping [start, end)
get_active_series(start, end) ==
    [r \in Granularities |->
        LET series == get_optimal_rollup_series(start, end, r)[2]
        IN  [i \in DOMAIN series |-> to_datetime(series[i])]]

\* every bucket coordinate a timestamp of the model can fall in
Buckets == {normalize_ts_to_rollup(t, g) : t \in 0 .. (MaxTime + 1), g \in Granularities}

-----------------------------------------------------------------------------
(* The nested defaultdicts: store[<<model, key, environment_id>>][bucket] *)

EmptyMap == [b \in {} |-> 0]

\* the elements of a list
SeqRange(s) == {s[i] : i \in DOMAIN s}

\* store[model][(key, environment_id)]: the entry is created when missing
Touch(store, k) == IF k \in DOMAIN store THEN store ELSE store @@ (k :> EmptyMap)

\* dict.pop(k, default) on the second level
PopKey(store, k) == [x \in DOMAIN store \ {k} |-> store[x]]

\* dict.pop(bucket, default) on the third level
PopBucket(m, b) == [x \in DOMAIN m \ {b} |-> m[x]]

\* m[bucket] += count on a defaultdict(int)
AddCountMut(m, b, count) ==
    IF b \in DOMAIN m THEN [m EXCEPT ![b] = count] ELSE m @@ (b :> count)

AddCount(m, b, count) ==
    IF b \in DOMAIN m THEN [m EXCEPT ![b] = @ + count] ELSE m @@ (b :> count)

\* the value a bucket holds, 0 when the key or the bucket does not exist
Value(store, k, b) ==
    IF k \in DOMAIN store /\ b \in DOMAIN store[k] THEN store[k][b] ELSE 0

-----------------------------------------------------------------------------
(* incr *)

IncrEnvironmentIdsMut(environment_id) == {environment_id}

IncrEnvironmentIds(environment_id) == {environment_id, None}

\* the inner loop of incr over the environment ids, for one rollup
RECURSIVE IncrEnvs(_, _, _, _, _, _)
IncrEnvs(store, model, key, norm_epoch, count, environment_ids) ==
    IF environment_ids = {} THEN store
    ELSE LET e == CHOOSE x \in environment_ids : TRUE
             k == <<model, key, e>>
             s == Touch(store, k)
         IN  IncrEnvs([s EXCEPT ![k] = AddCount(@, norm_epoch, count)],
                      model, key, norm_epoch, count, environment_ids \ {e})

\* the outer loop of incr over the rollups, from the i-th on
RECURSIVE IncrRollups(_, _, _, _, _, _, _)
IncrRollups(store, i, model, key, timestamp, count, environment_ids) ==
    IF i > Len(rollups) THEN store
    ELSE IncrRollups(
            IncrEnvs(store, model, key,
                     normalize_to_rollup(timestamp, rollups[i][1]),
                     count, environment_ids),
            i + 1, model, key, timestamp, count, environment_ids)

incr(store, model, key, timestamp, count, environment_id) ==
    IncrRollups(store, 1, model, key, timestamp, count,
                IncrEnvironmentIds(environment_id))

Incr(model, key, timestamp, count, environment_id) ==
    /\ nops < MaxOps
    /\ data' = incr(data, model, key, timestamp, count, environment_id)
    /\ pre' = Stores
    /\ last' = [op |-> "incr", model |-> model, key |-> key,
                timestamp |-> timestamp, count |-> count,
                environment_id |-> environment_id, error |-> "none"]
    /\ written' = written \cup
          {<<model, key, e, g, normalize_to_rollup(timestamp, g)>> :
              e \in IncrEnvironmentIds(environment_id), g \in Granularities}
    /\ nops' = nops + 1
    /\ UNCHANGED <<threads, sourcecache, sso>>
    /\ UNCHANGED <<sets, frequencies>>

-----------------------------------------------------------------------------
(* merge *)

MergeEnvironmentIds(environment_ids) == environment_ids \cup {None}

\* destination[bucket] += count over the items of a popped source
RECURSIVE MergeBucketsMut(_, _, _)
MergeBucketsMut(destination, source, bs) ==
    IF bs = {} THEN destination
    ELSE LET b == CHOOSE x \in bs : TRUE
         IN  MergeBucketsMut(AddCountMut(destination, b, source[b]), source, bs \ {b})

RECURSIVE MergeBuckets(_, _, _)
MergeBuckets(destination, source, bs) ==
    IF bs = {} THEN destination
    ELSE LET b == CHOOSE x \in bs : TRUE
         IN  MergeBuckets(AddCount(destination, b, source[b]), source, bs \ {b})

\* The loop over the sources, from the i-th on.  st.dest is the dict bound to
\* the local name destination; st.attached tells whether the store still
\* holds that dict: popping the destination's own key detaches it, and what
\* is added to it afterwards is not in the store any more.
RECURSIVE MergeSources(_, _, _, _, _)
MergeSources(st, dk, model, sources, i) ==
    IF i > Len(sources) THEN st
    ELSE LET k == <<model, sources[i], dk[3]>>
         IN  IF k \notin DOMAIN st.store
             THEN MergeSources(st, dk, model, sources, i + 1)
             ELSE LET popped == st.store[k]
                      store1 == PopKey(st.store, k)
                      attached1 == st.attached /\ k # dk
                      dest1 == MergeBuckets(st.dest, popped, DOMAIN popped)
                  IN  MergeSources(
                        [store |-> IF attached1
                                   THEN [store1 EXCEPT ![dk] = dest1]
                                   ELSE store1,
                         dest |-> dest1,
                         attached |-> attached1],
                        dk, model, sources, i + 1)

\* one pass of the loop over the environment ids
MergeEnv(store, model, destination, sources, environment_id) ==
    LET dk == <<model, destination, environment_id>>
        s0 == Touch(store, dk)
    IN  MergeSources([store |-> s0, dest |-> s0[dk], attached |-> TRUE],
                     dk, model, sources, 1).store

\* The first pass rebinds the name destination to a dict, so the second pass
\* builds the key (destination, environment_id) out of a dict and the lookup
\* raises TypeError (unhashable) before it changes anything.  Which
\* environment id a set yields first is up to the interpreter.
MergeError(environment_ids, first) ==
    IF MergeEnvironmentIds(environment_ids) \ {first} # {} THEN "TypeError" ELSE "none"

Merge(model, destination, sources, environment_ids) ==
    /\ nops < MaxOps
    /\ \E first \in MergeEnvironmentIds(environment_ids) :
         /\ data' = MergeEnv(data, model, destination, sources, first)
         /\ last' = [op |-> "merge", model |-> model, destination |-> destination,
                     sources |-> sources, environment_ids |-> environment_ids,
                     first |-> first,
                     error |-> MergeError(environment_ids, first)]
    /\ pre' = Stores
    /\ nops' = nops + 1
    /\ UNCHANGED <<threads, sourcecache, sso>>
    /\ UNCHANGED <<sets, frequencies, written>>

-----------------------------------------------------------------------------
(* delete *)

DeleteEnvironmentIds(environment_ids) == environment_ids \cup {None}

\* data.pop(normalize_to_rollup(timestamp, rollup), 0) for timestamp in series
RECURSIVE PopSeries(_, _, _, _)
PopSeries(m, series, i, rollup) ==
    IF i > Len(series) THEN m
    ELSE PopSeries(PopBucket(m, normalize_to_rollup(series[i], rollup)),
                   series, i + 1, rollup)

\* the loop over the rollups of the active series, for one dict
RECURSIVE PopRollups(_, _, _)
PopRollups(m, active, rs) ==
    IF rs = {} THEN m
    ELSE LET r == CHOOSE x \in rs : TRUE
         IN  PopRollups(PopSeries(m, active[r], 1, r), active, rs \ {r})

\* every (model, key, environment_id) of the call is looked up, which creates
\* its entry, and loses the buckets of the series of every rollup
DeleteFrom(store, models, keys, start, end, environment_ids) ==
    LET active == get_active_series(start, end)
        touched == {<<m, k, e>> : m \in models, k \in keys,
                                  e \in DeleteEnvironmentIds(environment_ids)}
    IN  [x \in DOMAIN store \cup touched |->
            IF x \in touched
            THEN PopRollups(IF x \in DOMAIN store THEN store[x] ELSE EmptyMap,
                            active, DOMAIN active)
            ELSE store[x]]

Delete(models, keys, start, end, environment_ids) ==
    /\ nops < MaxOps
    /\ data' = DeleteFrom(data, models, keys, start, end, environment_ids)
    /\ last' = [op |-> "delete", models |-> models, keys |-> keys,
                start |-> start, end |-> end,
                environment_ids |-> environment_ids, error |-> "none"]
    /\ pre' = Stores
    /\ nops' = nops + 1
    /\ UNCHANGED <<threads, sourcecache, sso>>
    /\ UNCHANGED <<sets, frequencies, written>>

-----------------------------------------------------------------------------
(* The lookups of the range reads *)

\* source = store[model][(key, environment_id)] for every key and source[r]
\* for every timestamp of the series: the lookups create the keys and the
\* buckets they do not find, holding the identity value
SeriesTouched(store, model, keys, series, rollup, environment_id, identity) ==
    LET read == {normalize_ts_to_rollup(series[i], rollup) : i \in DOMAIN series}
        touched == {<<model, k, environment_id>> : k \in keys}
    IN  [x \in DOMAIN store \cup touched |->
            IF x \in touched
            THEN LET m == IF x \in DOMAIN store THEN store[x] ELSE EmptyMap
                 IN  [b \in DOMAIN m \cup read |-> IF b \in DOMAIN m THEN m[b] ELSE identity]
            ELSE store[x]]

-----------------------------------------------------------------------------
(* get_range *)

\* sorted(points.items()): the pairs in ascending order
RECURSIVE Sorted(_)
Sorted(points) ==
    IF points = {} THEN << >>
    ELSE LET p == CHOOSE x \in points :
                     \A y \in points : x[1] < y[1] \/ (x[1] = y[1] /\ x[2] <= y[2])
         IN  <<p>> \o Sorted(points \ {p})

\* results_by_key[key][epoch] = int(count or 0), one point per epoch
Points(store, model, key, series, rollup, environment_id) ==
    {<<to_timestamp(to_datetime(series[i])),
       Value(store, <<model, key, environment_id>>,
             normalize_to_rollup(to_datetime(series[i]), rollup))>> :
        i \in DOMAIN series}

\* the value get_range returns: key -> [(epoch, count), ...]; a key gets an
\* entry only when the series has a timestamp
get_range(store, model, keys, start, end, rollup, environment_id) ==
    LET series == get_optimal_rollup_series(start, end, rollup)[2]
    IN  [k \in IF series = << >> THEN {} ELSE keys |->
            Sorted(Points(store, model, k, series, rollup, environment_id))]

\* self.data[model][(key, environment_id)][norm_epoch] on the defaultdicts
\* creates the key and the bucket it reads
RangeTouched(store, model, keys, start, end, rollup, environment_id) ==
    LET series == get_optimal_rollup_series(start, end, rollup)[2]
        read == {normalize_to_rollup(to_datetime(series[i]), rollup) : i \in DOMAIN series}
        touched == IF series = << >> THEN {}
                   ELSE {<<model, k, environment_id>> : k \in keys}
    IN  [x \in DOMAIN store \cup touched |->
            IF x \in touched
            THEN LET m == IF x \in DOMAIN store THEN store[x] ELSE EmptyMap
                 IN  [b \in DOMAIN m \cup read |-> IF b \in DOMAIN m THEN m[b] ELSE 0]
            ELSE store[x]]

\* rollup is the requested granularity; with requested = FALSE it is chosen
GetRange(model, keys, start, end, requested, rollup, environment_id) ==
    /\ nops < MaxOps
    /\ LET r == IF requested THEN rollup ELSE get_optimal_rollup(start, end)
       IN  /\ data' = RangeTouched(data, model, keys, start, end, r, environment_id)
           /\ last' = [op |-> "get_range", model |-> model, keys |-> keys,
                       start |-> start, end |-> end, rollup |-> r,
                       environment_id |-> environment_id,
                       result |-> get_range(data, model, keys, start, end, r,
                                            environment_id),
                       error |-> "none"]
    /\ pre' = Stores
    /\ nops' = nops + 1
    /\ UNCHANGED <<threads, sourcecache, sso>>
    /\ UNCHANGED <<sets, frequencies, written>>

-----------------------------------------------------------------------------
(* record and the distinct-count reads *)

\* m[bucket].update(values) on a defaultdict(set)
AddMembers(m, b, values) ==
    IF b \in DOMAIN m THEN [m EXCEPT ![b] = @ \cup values] ELSE m @@ (b :> values)

\* the members a bucket holds, none when the key or the bucket does not exist
MembersAt(store, k, b) ==
    IF k \in DOMAIN store /\ b \in DOMAIN store[k] THEN store[k][b] ELSE {}

\* the inner loop of record over the environment ids, for one rollup
RECURSIVE RecordEnvs(_, _, _, _, _, _)
RecordEnvs(store, model, key, r, values, environment_ids) ==
    IF environment_ids = {} THEN store
    ELSE LET e == CHOOSE x \in environment_ids : TRUE
             k == <<model, key, e>>
             s == Touch(store, k)
         IN  RecordEnvs([s EXCEPT ![k] = AddMembers(@, r, values)],
                        model, key, r, values, environment_ids \ {e})

\* the outer loop of record over the rollups, from the i-th on
RECURSIVE RecordRollups(_, _, _, _, _, _, _)
RecordRollups(store, i, model, key, timestamp, values, environment_ids) ==
    IF i > Len(rollups) THEN store
    ELSE RecordRollups(
            RecordEnvs(store, model, key,
                       normalize_to_rollup(timestamp, rollups[i][1]),
                       values, environment_ids),
            i + 1, model, key, timestamp, values, environment_ids)

\* environment_ids = set([environment_id, None])
RecordEnvironmentIdsMut(environment_id) == {environment_id}

RecordEnvironmentIds(environment_id) == {environment_id, None}

record(store, model, key, values, timestamp, environment_id) ==
    RecordRollups(store, 1, model, key, timestamp, values,
                  RecordEnvironmentIds(environment_id))

Record(model, key, values, timestamp, environment_id) ==
    /\ nops < MaxOps
    /\ sets' = record(sets, model, key, values, timestamp, environment_id)
    /\ last' = [op |-> "record", model |-> model, key |-> key, values |-> values,
                timestamp |-> timestamp, environment_id |-> environment_id,
                error |-> "none"]
    /\ pre' = Stores
    /\ nops' = nops + 1
    /\ UNCHANGED <<threads, sourcecache, sso>>
    /\ UNCHANGED <<data, frequencies, written>>

\* key -> [(timestamp, len(source[r])), ...] over the series
get_distinct_counts_series(store, model, keys, start, end, rollup, environment_id) ==
    LET series == get_optimal_rollup_series(start, end, rollup)[2]
    IN  [k \in keys |->
            [i \in DOMAIN series |->
                <<series[i],
                  Cardinality(MembersAt(store, <<model, k, environment_id>>,
                                        normalize_ts_to_rollup(series[i], rollup)))>>]]

\* the union of a key's buckets over the series
SeriesMembers(store, model, key, series, rollup, environment_id) ==
    UNION {MembersAt(store, <<model, key, environment_id>>,
                     normalize_ts_to_rollup(series[i], rollup)) : i \in DOMAIN series}

\* key -> len(union of the key's buckets over the series)
get_distinct_counts_totals(store, model, keys, start, end, rollup, environment_id) ==
    LET series == get_optimal_rollup_series(start, end, rollup)[2]
    IN  [k \in keys |->
            Cardinality(SeriesMembers(store, model, k, series, rollup, environment_id))]

\* values.update(source[r]) over the series, from the i-th timestamp on
RECURSIVE UnionSeries(_, _, _, _, _, _)
UnionSeries(values, store, k, series, i, rollup) ==
    IF i > Len(series) THEN values
    ELSE UnionSeries(values \cup MembersAt(store, k, normalize_ts_to_rollup(series[i], rollup)),
                     store, k, series, i + 1, rollup)

\* the loop of get_distinct_counts_union over the keys
RECURSIVE UnionKeysMut(_, _, _, _, _, _, _)
UnionKeysMut(values, store, model, ks, series, rollup, environment_id) ==
    IF ks = {} THEN values
    ELSE LET key == CHOOSE x \in ks : TRUE
         IN  UnionKeysMut(
                UnionSeries({}, store, <<model, key, environment_id>>, series, 1, rollup),
                store, model, ks \ {key}, series, rollup, environment_id)

RECURSIVE UnionKeys(_, _, _, _, _, _, _)
UnionKeys(values, store, model, ks, series, rollup, environment_id) ==
    IF ks = {} THEN values
    ELSE LET key == CHOOSE x \in ks : TRUE
         IN  UnionKeys(
                UnionSeries(values, store, <<model, key, environment_id>>, series, 1, rollup),
                store, model, ks \ {key}, series, rollup, environment_id)

\* len(union over the keys and the buckets of the series)
get_distinct_counts_union(store, model, keys, start, end, rollup, environment_id) ==
    LET series == get_optimal_rollup_series(start, end, rollup)[2]
    IN  Cardinality(UnionKeys({}, store, model, keys, series, rollup, environment_id))

-----------------------------------------------------------------------------
(* delete_distinct_counts *)

\* The loops are those of delete, and so is the store: the dict the buckets
\* are popped from is self.data[model][(key, environment_id)], the counters;
\* self.sets is not touched.
DeleteDistinctCounts(models, keys, start, end, environment_ids) ==
    /\ nops < MaxOps
    /\ data' = DeleteFrom(data, models, keys, start, end, environment_ids)
    /\ last' = [op |-> "delete_distinct_counts", models |-> models, keys |-> keys,
                start |-> start, end |-> end,
                environment_ids |-> environment_ids, error |-> "none"]
    /\ pre' = Stores
    /\ nops' = nops + 1
    /\ UNCHANGED <<threads, sourcecache, sso>>
    /\ UNCHANGED <<sets, frequencies, written>>

-----------------------------------------------------------------------------
(* record_frequency_multi *)

EmptyCounter == [x \in {} |-> 0]

\* Counter.update(items): the scores of items are added to the counter's
Update(counter, items) ==
    [x \in DOMAIN counter \cup DOMAIN items |->
        (IF x \in DOMAIN counter THEN counter[x] ELSE 0)
        + (IF x \in DOMAIN items THEN items[x] ELSE 0)]

\* m[bucket].update(items) on a defaultdict(Counter)
UpdateBucket(m, b, items) ==
    IF b \in DOMAIN m THEN [m EXCEPT ![b] = Update(@, items)]
    ELSE m @@ (b :> Update(EmptyCounter, items))

\* the counter a bucket holds, empty when the key or the bucket does not exist
CounterAt(store, k, b) ==
    IF k \in DOMAIN store /\ b \in DOMAIN store[k] THEN store[k][b] ELSE EmptyCounter

\* the score of a member in a counter, 0 when it has none
Score(counter, member) == IF member \in DOMAIN counter THEN counter[member] ELSE 0

\* the loop over the rollups, from the i-th on, for one dict
RECURSIVE FrequencyRollups(_, _, _, _)
FrequencyRollups(source, i, timestamp, items) ==
    IF i > Len(rollups) THEN source
    ELSE FrequencyRollups(
            UpdateBucket(source, normalize_to_rollup(timestamp, rollups[i][1]), items),
            i + 1, timestamp, items)

\* the loop over the environment ids, for one key of a request
RECURSIVE FrequencyEnvs(_, _, _, _, _, _)
FrequencyEnvs(store, model, key, items, timestamp, environment_ids) ==
    IF environment_ids = {} THEN store
    ELSE LET e == CHOOSE x \in environment_ids : TRUE
             k == <<model, key, e>>
             s == Touch(store, k)
         IN  FrequencyEnvs([s EXCEPT ![k] = FrequencyRollups(@, 1, timestamp, items)],
                           model, key, items, timestamp, environment_ids \ {e})

\* the loop over the keys of one request; the scores, made floats by the
\* code, are whole numbers here
RECURSIVE FrequencyKeys(_, _, _, _, _, _)
FrequencyKeys(store, model, request, ks, timestamp, environment_ids) ==
    IF ks = {} THEN store
    ELSE LET key == CHOOSE x \in ks : TRUE
         IN  FrequencyKeys(
                FrequencyEnvs(store, model, key, request[key], timestamp, environment_ids),
                model, request, ks \ {key}, timestamp, environment_ids)

\* environment_ids = set([environment_id, None])
FrequencyEnvironmentIds(environment_id) == {environment_id, None}

\* the loop over the requests, <<model, key -> member -> score>>, from the i-th on
RECURSIVE record_frequency_multi(_, _, _, _, _)
record_frequency_multi(store, requests, i, timestamp, environment_id) ==
    IF i > Len(requests) THEN store
    ELSE record_frequency_multi(
            FrequencyKeys(store, requests[i][1], requests[i][2], DOMAIN requests[i][2],
                          timestamp, FrequencyEnvironmentIds(environment_id)),
            requests, i + 1, timestamp, environment_id)

RecordFrequencyMulti(requests, timestamp, environment_id) ==
    /\ nops < MaxOps
    /\ frequencies' = record_frequency_multi(frequencies, requests, 1, timestamp,
                                             environment_id)
    /\ last' = [op |-> "record_frequency_multi", requests |-> requests,
                timestamp |-> timestamp, environment_id |-> environment_id,
                error |-> "none"]
    /\ written' = written \cup
          UNION {UNION {{<<requests[i][1], key, e, g, normalize_to_rollup(timestamp, g),
                             member>> :
                            e \in FrequencyEnvironmentIds(environment_id),
                            g \in Granularities,
                            member \in DOMAIN requests[i][2][key]} :
                          key \in DOMAIN requests[i][2]} :
                   i \in DOMAIN requests}
    /\ pre' = Stores
    /\ nops' = nops + 1
    /\ UNCHANGED <<threads, sourcecache, sso>>
    /\ UNCHANGED <<data, sets>>

-----------------------------------------------------------------------------
(* get_most_frequent *)

\* result.update(source[bucket]) over the series, from the i-th timestamp on
RECURSIVE Accumulate(_, _, _, _, _, _)
Accumulate(result, store, k, series, i, rollup) ==
    IF i > Len(series) THEN result
    ELSE Accumulate(
            Update(result, CounterAt(store, k, normalize_ts_to_rollup(series[i], rollup))),
            store, k, series, i + 1, rollup)

\* the Counter get_most_frequent builds for a key before most_common(limit)
most_frequent_counter(store, model, key, start, end, rollup, environment_id) ==
    Accumulate(EmptyCounter, store, <<model, key, environment_id>>,
               get_optimal_rollup_series(start, end, rollup)[2], 1, rollup)

\* the limit argument: << >> when omitted (None), <<n>> otherwise
NoLimit == << >>

\* every order in which a dict may yield the members
MemberOrders ==
    {o \in [1 .. Cardinality(FrequencyMembers) -> FrequencyMembers] :
        \A i \in DOMAIN o, j \in DOMAIN o : i # j => o[i] # o[j]}

\* counter.items(), in the order the dict yields them
RECURSIVE Items(_, _, _)
Items(counter, order, i) ==
    IF i > Len(order) THEN << >>
    ELSE (IF order[i] \in DOMAIN counter THEN << <<order[i], counter[order[i]]>> >>
          ELSE << >>)
         \o Items(counter, order, i + 1)

\* sorted(..., key=itemgetter(1), reverse=True), one item at a time: the sort
\* is stable, an item goes behind the items that score at least as much
InsertByScoreMut(sorted, item) ==
    LET p == Cardinality({i \in DOMAIN sorted : sorted[i][2] <= item[2]})
    IN  SubSeq(sorted, 1, p) \o <<item>> \o SubSeq(sorted, p + 1, Len(sorted))

InsertByScore(sorted, item) ==
    LET p == Cardinality({i \in DOMAIN sorted : sorted[i][2] >= item[2]})
    IN  SubSeq(sorted, 1, p) \o <<item>> \o SubSeq(sorted, p + 1, Len(sorted))

RECURSIVE SortByScore(_, _, _)
SortByScore(sorted, items, i) ==
    IF i > Len(items) THEN sorted
    ELSE SortByScore(InsertByScore(sorted, items[i]), items, i + 1)

\* Counter.most_common(n): every item when n is None, else the n largest
most_common(counter, order, limit) ==
    LET all == SortByScore(<< >>, Items(counter, order, 1), 1)
    IN  IF limit = NoLimit THEN all
        ELSE SubSeq(all, 1, IF limit[1] < Len(all) THEN limit[1] ELSE Len(all))

\* orders[key] is the order in which the key's Counter yields its members
get_most_frequent(store, model, keys, start, end, rollup, limit, environment_id, orders) ==
    [key \in keys |->
        most_common(most_frequent_counter(store, model, key, start, end, rollup,
                                          environment_id),
                    orders[key], limit)]

GetMostFrequent(model, keys, start, end, rollup, limit, environment_id) ==
    /\ nops < MaxOps
    /\ LET series == get_optimal_rollup_series(start, end, rollup)[2]
       IN  /\ frequencies' = SeriesTouched(frequencies, model, SeqRange(keys), series,
                                                rollup, environment_id, EmptyCounter)
           /\ \E orders \in [SeqRange(keys) -> MemberOrders] :
                last' = [op |-> "get_most_frequent", model |-> model,
                         keys |-> keys, start |-> start, end |-> end, rollup |-> rollup,
                         limit |-> limit, environment_id |-> environment_id,
                         result |-> get_most_frequent(
                                            frequencies, model, SeqRange(keys), start, end,
                                            rollup, limit, environment_id, orders),
                         error |-> "none"]
    /\ pre' = Stores
    /\ nops' = nops + 1
    /\ UNCHANGED <<threads, sourcecache, sso>>
    /\ UNCHANGED <<data, sets, written>>

-----------------------------------------------------------------------------
(* get_frequency_series and get_frequency_totals; items is key -> members *)

\* {k: scores.get(k, 0.0) for k in members}
ScoresOf(scores, members) == [k \in members |-> Score(scores, k)]

\* the list of (timestamp, scores) a key gets
FrequencySeriesOf(store, k, members, series, rollup) ==
    [i \in DOMAIN series |->
        <<series[i],
          ScoresOf(CounterAt(store, k, normalize_ts_to_rollup(series[i], rollup)), members)>>]

get_frequency_series(store, model, items, start, end, rollup, environment_id) ==
    LET series == get_optimal_rollup_series(start, end, rollup)[2]
    IN  [key \in DOMAIN items |->
            FrequencySeriesOf(store, <<model, key, environment_id>>, items[key], series,
                              rollup)]

\* result[member] = result.get(member, 0.0) + score over a key's series,
\* from the i-th point on
RECURSIVE FrequencyTotalsOf(_, _, _)
FrequencyTotalsOf(result, series, i) ==
    IF i > Len(series) THEN result
    ELSE FrequencyTotalsOf(Update(result, series[i][2]), series, i + 1)

get_frequency_totals(store, model, items, start, end, rollup, environment_id) ==
    LET results == get_frequency_series(store, model, items, start, end, rollup,
                                        environment_id)
    IN  [key \in DOMAIN results |-> FrequencyTotalsOf(EmptyCounter, results[key], 1)]

GetFrequencySeries(model, items, start, end, rollup, environment_id) ==
    /\ nops < MaxOps
    /\ LET series == get_optimal_rollup_series(start, end, rollup)[2]
       IN  frequencies' = SeriesTouched(frequencies, model, DOMAIN items, series, rollup,
                                        environment_id, EmptyCounter)
    /\ last' = [op |-> "get_frequency_series", model |-> model, items |-> items,
                start |-> start, end |-> end, rollup |-> rollup,
                environment_id |-> environment_id,
                result |-> get_frequency_series(frequencies, model, items, start, end,
                                                rollup, environment_id),
                error |-> "none"]
    /\ pre' = Stores
    /\ nops' = nops + 1
    /\ UNCHANGED <<threads, sourcecache, sso>>
    /\ UNCHANGED <<data, sets, written>>

GetFrequencyTotals(model, items, start, end, rollup, environment_id) ==
    /\ nops < MaxOps
    /\ LET series == get_optimal_rollup_series(start, end, rollup)[2]
       IN  frequencies' = SeriesTouched(frequencies, model, DOMAIN items, series, rollup,
                                        environment_id, EmptyCounter)
    /\ last' = [op |-> "get_frequency_totals", model |-> model, items |-> items,
                start |-> start, end |-> end, rollup |-> rollup,
                environment_id |-> environment_id,
                result |-> get_frequency_totals(frequencies, model, items, start, end,
                                                rollup, environment_id),
                error |-> "none"]
    /\ pre' = Stores
    /\ nops' = nops + 1
    /\ UNCHANGED <<threads, sourcecache, sso>>
    /\ UNCHANGED <<data, sets, written>>

-----------------------------------------------------------------------------
(* merge_frequencies *)

\* One pass of the loop over the environment ids.  The destination is looked
\* up in self.frequencies, but the sources are popped from self.data, the
\* counters.  A popped source that has a bucket makes the pass end in
\* destination[bucket].update(count): the lookup creates the destination's
\* bucket and update raises TypeError on the int.  Which bucket a dict yields
\* first is up to the interpreter.  out.error tells how the pass ended.
RECURSIVE MergeFrequencySources(_, _, _, _, _)
MergeFrequencySources(out, dk, model, sources, i) ==
    IF i > Len(sources) THEN {out}
    ELSE LET k == <<model, sources[i], dk[3]>>
         IN  IF k \notin DOMAIN out.data
             THEN MergeFrequencySources(out, dk, model, sources, i + 1)
             ELSE LET popped == out.data[k]
                      data1 == PopKey(out.data, k)
                  IN  IF DOMAIN popped = {}
                      THEN MergeFrequencySources([out EXCEPT !.data = data1],
                                                 dk, model, sources, i + 1)
                      ELSE {[data |-> data1,
                             frequencies |->
                                [out.frequencies EXCEPT
                                    ![dk] = UpdateBucket(@, b, EmptyCounter)],
                             error |-> "TypeError"] : b \in DOMAIN popped}

\* The outcomes of merge_frequencies.  As in merge, a second pass raises
\* TypeError on the rebound name destination before it changes anything.
merge_frequencies(model, destination, sources, environment_ids) ==
    UNION {
        LET dk == <<model, destination, first>>
            outs == MergeFrequencySources(
                        [data |-> data, frequencies |-> Touch(frequencies, dk),
                         error |-> "none"],
                        dk, model, sources, 1)
        IN  {[o EXCEPT !.error =
                 IF o.error = "none" /\ (environment_ids \cup {None}) \ {first} # {}
                 THEN "TypeError" ELSE o.error] : o \in outs}
        : first \in environment_ids \cup {None}}

MergeFrequencies(model, destination, sources, environment_ids) ==
    /\ nops < MaxOps
    /\ \E o \in merge_frequencies(model, destination, sources, environment_ids) :
         /\ data' = o.data
         /\ frequencies' = o.frequencies
         /\ last' = [op |-> "merge_frequencies", model |-> model,
                     destination |-> destination, sources |-> sources,
                     environment_ids |-> environment_ids, error |-> o.error]
    /\ pre' = Stores
    /\ nops' = nops + 1
    /\ UNCHANGED <<threads, sourcecache, sso>>
    /\ UNCHANGED <<sets, written>>

-----------------------------------------------------------------------------
(* merge_distinct_counts *)

\* destination[bucket].update(values) over the items of a popped source
RECURSIVE MergeMembers(_, _, _)
MergeMembers(destination, source, bs) ==
    IF bs = {} THEN destination
    ELSE LET b == CHOOSE x \in bs : TRUE
         IN  MergeMembers(AddMembers(destination, b, source[b]), source, bs \ {b})

\* the loop over the sources, from the i-th on; st is as in MergeSources
RECURSIVE MergeDistinctSources(_, _, _, _, _)
MergeDistinctSources(st, dk, model, sources, i) ==
    IF i > Len(sources) THEN st
    ELSE LET k == <<model, sources[i], dk[3]>>
         IN  IF k \notin DOMAIN st.store
             THEN MergeDistinctSources(st, dk, model, sources, i + 1)
             ELSE LET popped == st.store[k]
                      store1 == PopKey(st.store, k)
                      attached1 == st.attached /\ k # dk
                      dest1 == MergeMembers(st.dest, popped, DOMAIN popped)
                  IN  MergeDistinctSources(
                        [store |-> IF attached1
                                   THEN [store1 EXCEPT ![dk] = dest1]
                                   ELSE store1,
                         dest |-> dest1,
                         attached |-> attached1],
                        dk, model, sources, i + 1)

\* one pass of the loop over the environment ids, on self.sets
MergeDistinctEnv(store, model, destination, sources, environment_id) ==
    LET dk == <<model, destination, environment_id>>
        s0 == Touch(store, dk)
    IN  MergeDistinctSources([store |-> s0, dest |-> s0[dk], attached |-> TRUE],
                             dk, model, sources, 1).store

\* the name destination is rebound as in merge: a second pass raises TypeError
MergeDistinctCounts(model, destination, sources, environment_ids) ==
    /\ nops < MaxOps
    /\ \E first \in MergeEnvironmentIds(environment_ids) :
         /\ sets' = MergeDistinctEnv(sets, model, destination, sources, first)
         /\ last' = [op |-> "merge_distinct_counts", model |-> model,
                     destination |-> destination, sources |-> sources,
                     environment_ids |-> environment_ids, first |-> first,
                     error |-> MergeError(environment_ids, first)]
    /\ pre' = Stores
    /\ nops' = nops + 1
    /\ UNCHANGED <<threads, sourcecache, sso>>
    /\ UNCHANGED <<data, frequencies, written>>

-----------------------------------------------------------------------------
(* delete_frequencies: the loops of delete, on self.frequencies *)

DeleteFrequencies(models, keys, start, end, environment_ids) ==
    /\ nops < MaxOps
    /\ frequencies' = DeleteFrom(frequencies, models, keys, start, end, environment_ids)
    /\ last' = [op |-> "delete_frequencies", models |-> models, keys |-> keys,
                start |-> start, end |-> end,
                environment_ids |-> environment_ids, error |-> "none"]
    /\ pre' = Stores
    /\ nops' = nops + 1
    /\ UNCHANGED <<threads, sourcecache, sso>>
    /\ UNCHANGED <<data, sets, written>>

-----------------------------------------------------------------------------
(* The distinct-count reads as calls; keys is the list the caller passes *)

GetDistinctCountsSeries(model, keys, start, end, rollup, environment_id) ==
    /\ nops < MaxOps
    /\ LET series == get_optimal_rollup_series(start, end, rollup)[2]
       IN  /\ sets' = SeriesTouched(sets, model, SeqRange(keys), series, rollup,
                                         environment_id, {})
           /\ last' = [op |-> "get_distinct_counts_series", model |-> model,
                       keys |-> keys, start |-> start, end |-> end, rollup |-> rollup,
                       environment_id |-> environment_id,
                       result |-> get_distinct_counts_series(
                                          sets, model, SeqRange(keys), start, end,
                                          rollup, environment_id),
                       error |-> "none"]
    /\ pre' = Stores
    /\ nops' = nops + 1
    /\ UNCHANGED <<threads, sourcecache, sso>>
    /\ UNCHANGED <<data, frequencies, written>>

GetDistinctCountsTotals(model, keys, start, end, rollup, environment_id) ==
    /\ nops < MaxOps
    /\ LET series == get_optimal_rollup_series(start, end, rollup)[2]
       IN  /\ sets' = SeriesTouched(sets, model, SeqRange(keys), series, rollup,
                                         environment_id, {})
           /\ last' = [op |-> "get_distinct_counts_totals", model |-> model,
                       keys |-> keys, start |-> start, end |-> end, rollup |-> rollup,
                       environment_id |-> environment_id,
                       result |-> get_distinct_counts_totals(
                                          sets, model, SeqRange(keys), start, end,
                                          rollup, environment_id),
                       error |-> "none"]
    /\ pre' = Stores
    /\ nops' = nops + 1
    /\ UNCHANGED <<threads, sourcecache, sso>>
    /\ UNCHANGED <<data, frequencies, written>>

GetDistinctCountsUnion(model, keys, start, end, rollup, environment_id) ==
    /\ nops < MaxOps
    /\ LET series == get_optimal_rollup_series(start, end, rollup)[2]
       IN  /\ sets' = SeriesTouched(sets, model, SeqRange(keys), series, rollup,
                                         environment_id, {})
           /\ last' = [op |-> "get_distinct_counts_union", model |-> model,
                       keys |-> keys, start |-> start, end |-> end, rollup |-> rollup,
                       environment_id |-> environment_id,
                       result |-> get_distinct_counts_union(
                                          sets, model, SeqRange(keys), start, end,
                                          rollup, environment_id),
                       error |-> "none"]
    /\ pre' = Stores
    /\ nops' = nops + 1
    /\ UNCHANGED <<threads, sourcecache, sso>>
    /\ UNCHANGED <<data, frequencies, written>>

-----------------------------------------------------------------------------
(* incr and merge step by step, as two threads run them on the one store.   *)
(* A thread can be suspended between any two lookups or stores.  The inner  *)
(* dict of the source that merge has popped lives on in the threads that    *)
(* hold a reference to it: threads.popped.                                  *)

\* a dict's items(), a list of its own
ItemsOfMut(m) == {}

ItemsOf(m) == {<<b, m[b]>> : b \in DOMAIN m}

\* d[bucket] on a defaultdict(int): the bucket is created when missing
ReadBucket(m, b) == IF b \in DOMAIN m THEN m ELSE m @@ (b :> 0)

\* d[bucket] = value
StoreBucket(m, b, value) == [x \in DOMAIN m \cup {b} |-> IF x = b THEN value ELSE m[x]]

\* incr is called: environment_ids is {None}, the loop over the rollups starts
IncrBegin(model, key, timestamp, count) ==
    /\ nops < MaxOps
    /\ threads.incr.pc \in {"idle", "done"}
    /\ threads' = [threads EXCEPT
                     !.incr = [pc |-> "ref", model |-> model, key |-> key,
                               timestamp |-> timestamp, count |-> count, i |-> 1,
                               orphan |-> FALSE, v |-> 0],
                     !.amount = @ + count,
                     !.overlap = @ \/ threads.merge.pc \notin {"idle", "done"}]
    /\ nops' = nops + 1
    /\ UNCHANGED <<data, sets, frequencies, pre, last, written, sourcecache, sso>>

\* self.data[model][(key, environment_id)]: the inner dict, created when missing
IncrRef ==
    /\ threads.incr.pc = "ref"
    /\ data' = Touch(data, <<threads.incr.model, threads.incr.key, None>>)
    /\ threads' = [threads EXCEPT !.incr.pc = "read", !.incr.orphan = FALSE]
    /\ UNCHANGED <<sets, frequencies, pre, last, written, nops, sourcecache, sso>>

\* ...[norm_epoch], the left operand of +=, read from the dict referred to
IncrRead ==
    /\ threads.incr.pc = "read"
    /\ LET k == <<threads.incr.model, threads.incr.key, None>>
           b == normalize_to_rollup(threads.incr.timestamp, rollups[threads.incr.i][1])
       IN  IF threads.incr.orphan
           THEN /\ threads' = [threads EXCEPT !.incr.pc = "write",
                                              !.incr.v = ReadBucket(threads.popped, b)[b],
                                              !.popped = ReadBucket(@, b)]
                /\ data' = data
           ELSE /\ threads' = [threads EXCEPT !.incr.pc = "write",
                                              !.incr.v = ReadBucket(data[k], b)[b]]
                /\ data' = [data EXCEPT ![k] = ReadBucket(@, b)]
    /\ UNCHANGED <<sets, frequencies, pre, last, written, nops, sourcecache, sso>>

\* ...[norm_epoch] = the value read + count, stored in the dict referred to
IncrWrite ==
    /\ threads.incr.pc = "write"
    /\ LET k == <<threads.incr.model, threads.incr.key, None>>
           b == normalize_to_rollup(threads.incr.timestamp, rollups[threads.incr.i][1])
           pc1 == IF threads.incr.i < Len(rollups) THEN "ref" ELSE "done"
       IN  IF threads.incr.orphan
           THEN /\ threads' = [threads EXCEPT
                                 !.incr.pc = pc1, !.incr.i = @ + 1,
                                 !.popped = StoreBucket(@, b, threads.incr.v
                                                              + threads.incr.count)]
                /\ data' = data
           ELSE /\ threads' = [threads EXCEPT !.incr.pc = pc1, !.incr.i = @ + 1]
                /\ data' = [data EXCEPT
                              ![k] = StoreBucket(@, b, threads.incr.v + threads.incr.count)]
    /\ UNCHANGED <<sets, frequencies, pre, last, written, nops, sourcecache, sso>>

\* merge is called with one source and no environment ids: one pass, for None
MergeBegin(model, destination, source) ==
    /\ threads.merge.pc = "idle"
    /\ destination # source
    /\ threads' = [threads EXCEPT
                     !.merge = [pc |-> "dest", model |-> model,
                                destination |-> destination, source |-> source,
                                items |-> {}, item |-> <<0, 0>>, v |-> 0],
                     !.overlap = @ \/ threads.incr.pc \notin {"idle", "done"}]
    /\ UNCHANGED <<data, sets, frequencies, pre, last, written, nops, sourcecache, sso>>

\* destination = self.data[model][(destination, environment_id)]
MergeDest ==
    /\ threads.merge.pc = "dest"
    /\ data' = Touch(data, <<threads.merge.model, threads.merge.destination, None>>)
    /\ threads' = [threads EXCEPT !.merge.pc = "pop"]
    /\ UNCHANGED <<sets, frequencies, pre, last, written, nops, sourcecache, sso>>

\* self.data[model].pop((source, environment_id), {}): the inner dict leaves
\* the store; a reference incr holds to it now refers to the popped dict
MergePop ==
    /\ threads.merge.pc = "pop"
    /\ LET k == <<threads.merge.model, threads.merge.source, None>>
           held == /\ threads.incr.pc \in {"read", "write"}
                   /\ <<threads.incr.model, threads.incr.key, None>> = k
       IN  /\ data' = PopKey(data, k)
           /\ threads' = [threads EXCEPT
                            !.merge.pc = "items",
                            !.popped = IF k \in DOMAIN data THEN data[k] ELSE EmptyMap,
                            !.incr.orphan = @ \/ held]
    /\ UNCHANGED <<sets, frequencies, pre, last, written, nops, sourcecache, sso>>

\* .items() of the popped dict
MergeItems ==
    /\ threads.merge.pc = "items"
    /\ threads' = [threads EXCEPT
                     !.merge.items = ItemsOf(threads.popped),
                     !.merge.pc = IF ItemsOf(threads.popped) = {} THEN "done" ELSE "next"]
    /\ UNCHANGED <<data, sets, frequencies, pre, last, written, nops, sourcecache, sso>>

\* the next (bucket, count) of the items and destination[bucket], the left
\* operand of +=
MergeRead ==
    /\ threads.merge.pc = "next"
    /\ \E item \in threads.merge.items :
         LET dk == <<threads.merge.model, threads.merge.destination, None>>
         IN  /\ threads' = [threads EXCEPT
                              !.merge.pc = "write", !.merge.item = item,
                              !.merge.items = @ \ {item},
                              !.merge.v = ReadBucket(data[dk], item[1])[item[1]]]
             /\ data' = [data EXCEPT ![dk] = ReadBucket(@, item[1])]
    /\ UNCHANGED <<sets, frequencies, pre, last, written, nops, sourcecache, sso>>

\* destination[bucket] = the value read + count
MergeWrite ==
    /\ threads.merge.pc = "write"
    /\ LET dk == <<threads.merge.model, threads.merge.destination, None>>
       IN  data' = [data EXCEPT
                      ![dk] = StoreBucket(@, threads.merge.item[1],
                                          threads.merge.v + threads.merge.item[2])]
    /\ threads' = [threads EXCEPT
                     !.merge.pc = IF threads.merge.items = {} THEN "done" ELSE "next"]
    /\ UNCHANGED <<sets, frequencies, pre, last, written, nops, sourcecache, sso>>

-----------------------------------------------------------------------------
(* sentry.deletions.defaults.group: GroupDeletionTask.get_child_relations *)

\* the models of model_list, in the order of the tuple
model_list ==
    <<"GroupHash", "EventMapping", "GroupAssignee", "GroupCommitResolution",
      "GroupBookmark", "GroupMeta", "GroupRelease", "GroupRedirect", "GroupResolution",
      "GroupRuleStatus", "GroupSnooze", "GroupEmailThread", "GroupSubscription",
      "UserReport", "Event">>

\* ModelRelation(m, {'group_id': instance.id})
ModelRelation(m, instance) == [model |-> m, query |-> [group_id |-> instance]]

\* relations.extend(b) on the list a
Extend(a, b) == a \o b

\* dependencies is default_manager.dependencies[models.Group] in the order it
\* is iterated; each rel(instance) is a relation on a model of its own
get_child_relations(instance, dependencies) ==
    LET relations0 == << >>
        relations1 == Extend(relations0,
                             [i \in DOMAIN model_list |->
                                 ModelRelation(model_list[i], instance)])
        relations2 == Extend(relations1,
                             [i \in DOMAIN dependencies |->
                                 ModelRelation(dependencies[i], instance)])
    IN  relations2

GetChildRelations(instance, dependencies) ==
    /\ nops < MaxOps
    /\ last' = [op |-> "get_child_relations", instance |-> instance,
                dependencies |-> dependencies,
                result |-> get_child_relations(instance, dependencies),
                error |-> "none"]
    /\ nops' = nops + 1
    /\ UNCHANGED <<data, sets, frequencies, pre, written, threads, sourcecache, sso>>

-----------------------------------------------------------------------------
(* sentry.lang.javascript.cache: SourceCache *)

\* __init__: three empty dicts; added is the history of the urls given to add
SourceCache ==
    [cache |-> [u \in {} |-> None], errors |-> [u \in {} |-> << >>],
     aliases |-> [u \in {} |-> None], added |-> {}]

\* d[k] = v on a dict
SetItem(d, k, v) == [x \in DOMAIN d \cup {k} |-> IF x = k THEN v ELSE d[x]]

\* one lookup in _aliases, not followed further
get_canonical_url(sc, url) ==
    IF url \in DOMAIN sc.aliases THEN sc.aliases[url] ELSE url

\* __contains__
contains(sc, url) == get_canonical_url(sc, url) \in DOMAIN sc.cache

\* the None that get returns, as a value comparable with a SourceView
NoSource == [type |-> None]

\* get: self._cache.get(canonical url), None when missing
get(sc, url) ==
    LET u == get_canonical_url(sc, url)
    IN  IF u \in DOMAIN sc.cache THEN sc.cache[u] ELSE NoSource

\* get_errors: self._errors.get(canonical url, [])
get_errors(sc, url) ==
    LET u == get_canonical_url(sc, url)
    IN  IF u \in DOMAIN sc.errors THEN sc.errors[u] ELSE << >>

alias(sc, u1, u2) ==
    IF u1 = u2 THEN sc
    ELSE IF u1 \in DOMAIN sc.cache \/ u1 \notin DOMAIN sc.aliases
         THEN [sc EXCEPT !.aliases = SetItem(@, u1, u1)]
         ELSE [sc EXCEPT !.aliases = SetItem(@, u2, u1)]

\* codecs.lookup(codec).name in ('utf-8', 'ascii'); an unknown codec is none
is_utf8(codec) == codec \in {"utf-8", "ascii"}

\* A source is a SourceView [type |-> "view", bytes], a text
\* [type |-> "text", text] or a byte string [type |-> "bytes", codec, text]:
\* the text and the codec it is encoded in.
encode_utf8(text) == [codec |-> "utf-8", text |-> text]

\* source.decode(encoding) raises UnicodeError unless the bytes are in that codec
decodes(source, encoding) == source.codec = encoding

from_bytes(bytes) == [type |-> "view", bytes |-> bytes]

\* what add stores for a source and an encoding (None when not given)
source_view(source, encoding) ==
    IF source.type = "view" THEN source
    ELSE IF source.type = "text" THEN from_bytes(encode_utf8(source.text))
    ELSE IF encoding # None /\ ~is_utf8(encoding) /\ decodes(source, encoding)
         THEN from_bytes(encode_utf8(source.text))
         ELSE from_bytes([codec |-> source.codec, text |-> source.text])

add(sc, url, source, encoding) ==
    [sc EXCEPT !.cache = SetItem(@, get_canonical_url(sc, url),
                                 source_view(source, encoding)),
               !.added = @ \cup {url}]

add_error(sc, url, error) ==
    LET u == get_canonical_url(sc, url)
    IN  [sc EXCEPT !.errors = SetItem(@, u, get_errors(sc, url) \o <<error>>)]

Add(url, source, encoding) ==
    /\ nops < MaxOps
    /\ sourcecache' = add(sourcecache, url, source, encoding)
    /\ last' = [op |-> "add", url |-> url, source |-> source, encoding |-> encoding,
                error |-> "none"]
    /\ nops' = nops + 1
    /\ UNCHANGED <<data, sets, frequencies, pre, written, threads, sso>>

AddError(url, error) ==
    /\ nops < MaxOps
    /\ sourcecache' = add_error(sourcecache, url, error)
    /\ last' = [op |-> "add_error", url |-> url, err |-> error, error |-> "none"]
    /\ nops' = nops + 1
    /\ UNCHANGED <<data, sets, frequencies, pre, written, threads, sso>>

Alias(u1, u2) ==
    /\ nops < MaxOps
    /\ sourcecache' = alias(sourcecache, u1, u2)
    /\ last' = [op |-> "alias", u1 |-> u1, u2 |-> u2, error |-> "none"]
    /\ nops' = nops + 1
    /\ UNCHANGED <<data, sets, frequencies, pre, written, threads, sso>>

-----------------------------------------------------------------------------
(* OrganizationAuthProviderEndpoint: the rows it reads and writes *)

Orgs == {"o1", "o2"}

OrganizationMembers == {"om1", "om2", "om3"}

\* the bits of OrganizationMember.flags, lowest first; the column is an
\* integer, and the endpoint names only the first two of its bits
OrganizationMemberFlags == <<"sso:linked", "sso:invalid", "other">>

Bit(name) ==
    2 ^ ((CHOOSE i \in DOMAIN OrganizationMemberFlags : OrganizationMemberFlags[i] = name) - 1)

AllBits == 2 ^ Len(OrganizationMemberFlags) - 1

\* ~bit, on the width of the column
Invert(mask) == AllBits - mask

RECURSIVE bitand(_, _)
bitand(a, b) ==
    IF a = 0 \/ b = 0 THEN 0
    ELSE (a % 2) * (b % 2) + 2 * bitand(a \div 2, b \div 2)

\* a database without rows
NoRows ==
    [features |-> {},
     providers |-> [o \in {} |-> [id |-> None, allow_unlinked |-> FALSE]],
     default_role |-> [o \in {} |-> None],
     members |-> [m \in {} |-> [organization |-> None, flags |-> 0]],
     audit |-> << >>,
     writes |-> << >>]

\* features.has('organizations:sso', organization, actor=request.user)
has(db, organization) == organization \in db.features

Write(db, statement) == [db EXCEPT !.writes = Append(@, statement)]

create_audit_entry(db, organization, target_object, event, audit_log_data) ==
    Write([db EXCEPT !.audit = Append(@, [organization |-> organization,
                                          target_object |-> target_object,
                                          event |-> event, data |-> audit_log_data])],
          [statement |-> "insert", table |-> "AuditLogEntry", row |-> target_object])

\* OrganizationMember.objects.filter(organization=organization)
filter(db, organization) ==
    {m \in DOMAIN db.members : db.members[m].organization = organization}

\* setattr(om.flags, name, False)
setattr(flags, name) == bitand(flags, Invert(Bit(name)))

\* the loop of the sqlite branch: each row is loaded, cleared and saved
RECURSIVE SaveEach(_, _)
SaveEach(db, oms) ==
    IF oms = {} THEN db
    ELSE LET om == CHOOSE m \in oms : TRUE
             flags == setattr(setattr(db.members[om].flags, "sso:linked"), "sso:invalid")
         IN SaveEach(Write([db EXCEPT !.members[om].flags = flags],
                           [statement |-> "update", table |-> "OrganizationMember", row |-> om]),
                     oms \ {om})

\* the one UPDATE of the other branch, with the flags computed in the database
BulkUpdateMut(db, organization) ==
    Write([db EXCEPT !.members =
               [m \in DOMAIN db.members |->
                   [db.members[m] EXCEPT !.flags =
                       bitand(bitand(@, Invert(Bit("sso:linked"))),
                              Invert(Bit("sso:invalid")))]]],
          [statement |-> "update", table |-> "OrganizationMember", row |-> organization])

BulkUpdate(db, organization) ==
    Write([db EXCEPT !.members =
               [m \in DOMAIN db.members |->
                   IF m \in filter(db, organization)
                   THEN [db.members[m] EXCEPT !.flags =
                            bitand(bitand(@, Invert(Bit("sso:linked"))),
                                   Invert(Bit("sso:invalid")))]
                   ELSE db.members[m]]],
          [statement |-> "update", table |-> "OrganizationMember", row |-> organization])

\* auth_provider.delete()
DeleteProvider(db, organization) ==
    Write([db EXCEPT !.providers =
               [o \in DOMAIN db.providers \ {organization} |-> db.providers[o]]],
          [statement |-> "delete", table |-> "AuthProvider",
           row |-> db.providers[organization].id])

Response(db, status) == [db |-> db, status |-> status]

provider_get(db, organization) ==
    IF ~has(db, organization) THEN Response(db, 403)
    ELSE IF organization \notin DOMAIN db.providers THEN Response(db, 204)
    ELSE Response(db, 200)

\* request_data is invalid or the validated object of the serializer
provider_put(db, organization, request_data) ==
    IF ~has(db, organization) THEN Response(db, 403)
    ELSE IF organization \notin DOMAIN db.providers THEN Response(db, 404)
    ELSE IF ~request_data.valid THEN Response(db, 400)
    ELSE LET saved == Write([db EXCEPT !.providers[organization].allow_unlinked =
                                           ~request_data.require_link],
                            [statement |-> "update", table |-> "AuthProvider",
                             row |-> db.providers[organization].id])
             role == IF request_data.default_role # None
                     THEN Write([saved EXCEPT !.default_role[organization] =
                                                  request_data.default_role],
                                [statement |-> "update", table |-> "Organization",
                                 row |-> organization])
                     ELSE saved
             auth_provider == role.providers[organization]
         IN Response(create_audit_entry(role, organization, auth_provider.id,
                                        "SSO_EDIT", auth_provider),
                     200)

provider_delete(db, organization, is_sqlite) ==
    IF ~has(db, organization) THEN Response(db, 403)
    ELSE IF organization \notin DOMAIN db.providers THEN Response(db, 404)
    ELSE LET auth_provider == db.providers[organization]
             audited == create_audit_entry(db, organization, auth_provider.id,
                                           "SSO_DISABLE", auth_provider)
             cleared == IF is_sqlite
                        THEN SaveEach(audited, filter(audited, organization))
                        ELSE BulkUpdate(audited, organization)
         IN Response(DeleteProvider(cleared, organization), 204)

\* a request starts with no statement sent
Request(db) == [db EXCEPT !.writes = << >>]

ProviderGet(organization) ==
    /\ nops < MaxOps
    /\ LET response == provider_get(Request(sso), organization)
       IN /\ sso' = response.db
          /\ last' = [op |-> "get", organization |-> organization, before |-> sso,
                      status |-> response.status, error |-> "none"]
    /\ nops' = nops + 1
    /\ UNCHANGED <<data, sets, frequencies, pre, written, threads, sourcecache>>

ProviderPut(organization, request_data) ==
    /\ nops < MaxOps
    /\ LET response == provider_put(Request(sso), organization, request_data)
       IN /\ sso' = response.db
          /\ last' = [op |-> "put", organization |-> organization, before |-> sso,
                      status |-> response.status, error |-> "none"]
    /\ nops' = nops + 1
    /\ UNCHANGED <<data, sets, frequencies, pre, written, threads, sourcecache>>

ProviderDelete(organization, is_sqlite) ==
    /\ nops < MaxOps
    /\ LET response == provider_delete(Request(sso), organization, is_sqlite)
       IN /\ sso' = response.db
          /\ last' = [op |-> "delete", organization |-> organization, before |-> sso,
                      is_sqlite |-> is_sqlite, status |-> response.status,
                      error |-> "none"]
    /\ nops' = nops + 1
    /\ UNCHANGED <<data, sets, frequencies, pre, written, threads, sourcecache>>

-----------------------------------------------------------------------------
(* flush, as called by __init__ *)

\* the stores and the cache as their constructors leave them
Constructed ==
    /\ data = [k \in {} |-> EmptyMap]
    /\ sets = [k \in {} |-> EmptyMap]
    /\ frequencies = [k \in {} |-> EmptyMap]
    /\ pre = [data |-> data, sets |-> sets, frequencies |-> frequencies]
    /\ last = [op |-> "init", error |-> "none"]
    /\ written = {}
    /\ nops = 0
    /\ threads = [incr |-> [pc |-> "idle", model |-> "m1", key |-> "A",
                            timestamp |-> to_datetime(0), count |-> 0, i |-> 1,
                            orphan |-> FALSE, v |-> 0],
                  merge |-> [pc |-> "idle", model |-> "m1", destination |-> "B",
                             source |-> "A", items |-> {}, item |-> <<0, 0>>, v |-> 0],
                  popped |-> EmptyMap, amount |-> 0, overlap |-> FALSE]
    /\ sourcecache = SourceCache

Init ==
    /\ Constructed
    /\ sso = NoRows

-----------------------------------------------------------------------------
(* Increments that each carry a concrete environment, on one (model, key) *)

NextIncr ==
    \E t \in Times, c \in {1, 2}, e \in ConcreteEnvs :
        Incr("m1", "A", to_datetime(t), c, e)

SpecIncr == Init /\ [][NextIncr]_vars

\* the sum of the environment-specific counters of a coordinate
RECURSIVE SumEnvs(_, _, _, _, _)
SumEnvs(store, model, key, b, es) ==
    IF es = {} THEN 0
    ELSE LET e == CHOOSE x \in es : TRUE
         IN  Value(store, <<model, key, e>>, b)
             + SumEnvs(store, model, key, b, es \ {e})

DualWriteAt(store, model, key, b) ==
    Value(store, <<model, key, None>>, b) = SumEnvs(store, model, key, b, ConcreteEnvs)

\* C1: after every incr of a sequence of environment-scoped incr calls on the
\* same (model, key), at every bucket the counter stored under (key, None)
\* equals the sum of the counters stored under (key, e) over the concrete
\* environment ids e.
C1_DualWriteUnderIncr ==
    \A b \in Buckets : DualWriteAt(data, "m1", "A", b)

\* two environments have both been written at one bucket of the key
C1_Witness ==
    /\ last.op = "incr"
    /\ \E b \in Buckets :
          /\ Value(data, <<"m1", "A", "e1">>, b) > 0
          /\ Value(data, <<"m1", "A", "e2">>, b) > 0
          /\ Value(data, <<"m1", "A", None>>, b) >= 2

-----------------------------------------------------------------------------
(* Increments and merges on the keys of one model *)

SourceLists == UNION {[1 .. n -> Keys] : n \in 1 .. 2}

Ranges == {<<s, e>> \in (0 .. MaxTime) \X (1 .. (MaxTime + 1)) : s < e}

NextMerge ==
    \/ \E k \in Keys, t \in Times, e \in {None, "e1"} :
          Incr("m1", k, to_datetime(t), 1, e)
    \/ \E d \in Keys, s \in SourceLists, E \in {{}, {"e1"}} :
          Merge("m1", d, s, E)

SpecMerge == Init /\ [][NextMerge]_vars

\* the sum of the values several keys hold at a bucket of an environment
RECURSIVE SumKeys(_, _, _, _, _)
SumKeys(store, model, ks, environment_id, b) ==
    IF ks = {} THEN 0
    ELSE LET k == CHOOSE x \in ks : TRUE
         IN  Value(store, <<model, k, environment_id>>, b)
             + SumKeys(store, model, ks \ {k}, environment_id, b)

\* every count get_range reports for the key over every range is 0
ReadsZero(store, model, key, environment_id) ==
    \A r \in Ranges, g \in Granularities :
        LET res == get_range(store, model, {key}, to_datetime(r[1]),
                             to_datetime(r[2]), g, environment_id)
        IN  \A i \in DOMAIN res[key] : res[key][i][2] = 0

\* the destination holds, in an environment, what it held plus the sources
MergedInto(model, destination, sources, environment_id) ==
    /\ \A b \in Buckets :
          Value(data, <<model, destination, environment_id>>, b)
            = Value(pre.data, <<model, destination, environment_id>>, b)
              + SumKeys(pre.data, model, SeqRange(sources), environment_id, b)
    /\ \A s \in SeqRange(sources) : <<model, s, environment_id>> \notin DOMAIN data

\* C3: after merge(model, destination, sources) with the destination not
\* among the sources, at every bucket the destination's aggregate counter is
\* its value before the merge plus the sum of the sources' values, the
\* sources' aggregate buckets are gone and get_range reads 0 for every source
\* at every epoch.
C3_MergePreservesTotals ==
    (last.op = "merge" /\ last.environment_ids = {}
       /\ last.destination \notin SeqRange(last.sources))
    => /\ last.error = "none"
       /\ MergedInto(last.model, last.destination, last.sources, None)
       /\ \A s \in SeqRange(last.sources) : ReadsZero(data, last.model, s, None)

\* a merge of a source that held a value into a destination that held one
C3_Witness ==
    /\ last.op = "merge" /\ last.environment_ids = {}
    /\ last.destination \notin SeqRange(last.sources)
    /\ \E b \in Buckets, s \in SeqRange(last.sources) :
          /\ Value(pre.data, <<last.model, last.destination, None>>, b) > 0
          /\ Value(pre.data, <<last.model, s, None>>, b) > 0
          /\ Value(data, <<last.model, last.destination, None>>, b) >= 2
          /\ ~ReadsZero(pre.data, last.model, s, None)

\* C4: merge with a non-empty environment_ids completes without error and,
\* for every environment id of environment_ids and for the aggregate, adds
\* the sources' buckets into the destination's and removes the sources'.
C4_MergeAcrossEnvironments ==
    (last.op = "merge" /\ last.environment_ids # {}
       /\ last.destination \notin SeqRange(last.sources))
    => /\ last.error = "none"
       /\ \A e \in last.environment_ids \cup {None} :
             MergedInto(last.model, last.destination, last.sources, e)

\* C5: a merge whose destination is among its sources leaves the
\* destination's stored buckets, and what get_range reads for it, as they were.
C5_SelfMergeNoOp ==
    (last.op = "merge" /\ last.destination \in SeqRange(last.sources))
    => \A e \in Envs :
         LET dk == <<last.model, last.destination, e>>
         IN  /\ dk \in DOMAIN pre.data =>
                   (dk \in DOMAIN data /\ data[dk] = pre.data[dk])
             /\ \A r \in Ranges, g \in Granularities :
                   get_range(data, last.model, {last.destination},
                             to_datetime(r[1]), to_datetime(r[2]), g, e)
                   = get_range(pre.data, last.model, {last.destination},
                               to_datetime(r[1]), to_datetime(r[2]), g, e)

-----------------------------------------------------------------------------
(* Environment-scoped increments, merges and deletes *)

NextCounter ==
    \/ \E m \in Models, k \in Keys, t \in Times, e \in ConcreteEnvs :
          Incr(m, k, to_datetime(t), 1, e)
    \/ \E d \in Keys, E \in {{}, {"e1"}} :
          \E s \in Keys \ {d} : Merge("m1", d, <<s>>, E)
    \/ \E ks \in {{"A"}, Keys}, r \in Ranges, E \in {{}, ConcreteEnvs} :
          Delete({"m1"}, ks, to_datetime(r[1]), to_datetime(r[2]), E)

SpecCounter == Init /\ [][NextCounter]_vars

\* C2: in every state reached by incr calls that carry a concrete
\* environment_id, merge calls and delete calls, for every model, key and
\* bucket the aggregate counter equals the sum of the environment-specific
\* counters.
C2_StandingDualWrite ==
    \A m \in Models, k \in Keys, b \in Buckets : DualWriteAt(data, m, k, b)

\* the bucket epochs of granularity g
Epochs(g) == {normalize_ts_to_rollup(t, g) : t \in 0 .. (MaxTime + 1)}

\* what get_range reads at one epoch of a granularity
ReadAt(store, model, key, g, epoch, environment_id) ==
    get_range(store, model, {key}, to_datetime(epoch), to_datetime(epoch + 1),
              g, environment_id)[key][1][2]

\* C6: when a key holds increments at two different epochs e1 and e2 of a
\* granularity, delete(models, keys, start=e1, end=e1+1) makes the aggregate
\* value at e1 read 0, leaves the value at e2 as it was, and leaves the values
\* of the keys and models the call does not name as they were.
C6_DeleteClearsExactlyRange ==
    last.op = "delete" =>
      \A m \in last.models, k \in last.keys, g \in Granularities :
        \A e1 \in Epochs(g), e2 \in Epochs(g) :
          (/\ e1 # e2
           /\ last.start = to_datetime(e1) /\ last.end = to_datetime(e1 + 1)
           /\ <<m, k, None, g, e1>> \in written
           /\ <<m, k, None, g, e2>> \in written)
          => /\ ReadAt(data, m, k, g, e1, None) = 0
             /\ ReadAt(data, m, k, g, e2, None) = ReadAt(pre.data, m, k, g, e2, None)
             /\ \A x \in DOMAIN pre.data :
                   (x[1] \notin last.models \/ x[2] \notin last.keys)
                   => (x \in DOMAIN data /\ data[x] = pre.data[x])

\* C7: after delete(models, keys, start, end) without environment_ids, for
\* every granularity the buckets of the range read 0 in every environment,
\* the aggregate and each concrete one.
C7_DeleteCoversEveryEnvironment ==
    (last.op = "delete" /\ last.environment_ids = {}) =>
      \A m \in last.models, k \in last.keys, e \in Envs, g \in Granularities :
        LET res == get_range(data, m, {k}, last.start, last.end, g, e)
        IN  \A i \in DOMAIN res[k] : res[k][i][2] = 0

-----------------------------------------------------------------------------
(* Increments and range reads *)

ShortRanges == {<<s, s + 1>> : s \in 0 .. MaxTime} \cup {<<0, MaxTime + 1>>}

NextRange ==
    \/ \E t \in Times, e \in {None, "e1"} :
          Incr("m1", "A", to_datetime(t), 1, e)
    \/ \E m \in Models, ks \in {{"A"}, Keys}, r \in ShortRanges, g \in Granularities :
          GetRange(m, ks, to_datetime(r[1]), to_datetime(r[2]), TRUE, g, None)
    \/ \E m \in Models, ks \in {{"A"}, Keys}, r \in ShortRanges :
          GetRange(m, ks, to_datetime(r[1]), to_datetime(r[2]), FALSE, rollups[1][1], None)

SpecRange == Init /\ [][NextRange]_vars

\* the bucket epochs of granularity g that overlap [start, end)
EpochsIn(g, start, end) == {e \in Epochs(g) : e < end /\ e + g > start}

\* C10: get_range returns, for each requested key, exactly one
\* (timestamp, count) pair per bucket epoch of the selected series, in
\* strictly ascending order of timestamp, and the count is 0 at every
\* (key, epoch) that no incr has written at the selected granularity.
C10_RangeQueryCompleteness ==
    last.op = "get_range" =>
      LET epochs == EpochsIn(last.rollup, to_timestamp(last.start), to_timestamp(last.end))
      IN  \A k \in last.keys :
            /\ k \in DOMAIN last.result
            /\ Len(last.result[k]) = Cardinality(epochs)
            /\ {last.result[k][i][1] : i \in DOMAIN last.result[k]} = epochs
            /\ \A i \in DOMAIN last.result[k], j \in DOMAIN last.result[k] :
                  i < j => last.result[k][i][1] < last.result[k][j][1]
            /\ \A i \in DOMAIN last.result[k] :
                  <<last.model, k, last.environment_id, last.rollup,
                    last.result[k][i][1]>> \notin written
                  => last.result[k][i][2] = 0

-----------------------------------------------------------------------------
(* Records and deletes of the set store *)

MemberSets == SUBSET Members \ {{}}

NextSets ==
    \/ \E k \in Keys, v \in MemberSets, t \in Times, e \in {None, "e1"} :
          Record("m1", k, v, to_datetime(t), e)
    \/ \E ks \in {{"A"}, Keys}, r \in Ranges, E \in {{}, {"e1"}} :
          DeleteDistinctCounts({"m1"}, ks, to_datetime(r[1]), to_datetime(r[2]), E)

SpecSets == Init /\ [][NextSets]_vars

\* C8: after delete_distinct_counts(models, keys, start, end), at every
\* granularity get_distinct_counts_series, get_distinct_counts_totals and
\* get_distinct_counts_union over the range report 0 for each key of the call.
C8_SetDeleteRemovesBuckets ==
    last.op = "delete_distinct_counts" =>
      \A m \in last.models, k \in last.keys, g \in Granularities :
        LET series == get_distinct_counts_series(sets, m, {k}, last.start, last.end, g, None)
        IN  /\ \A i \in DOMAIN series[k] : series[k][i][2] = 0
            /\ get_distinct_counts_totals(sets, m, {k}, last.start, last.end, g, None)[k] = 0
            /\ get_distinct_counts_union(sets, m, {k}, last.start, last.end, g, None) = 0

-----------------------------------------------------------------------------
(* Frequency records and merges, next to increments of the counters *)

\* member -> score tables over one or two members
ItemTables == UNION {[ms -> {1, 2}] : ms \in MemberSets}

NextFrequencies ==
    \/ \E k \in Keys, items \in ItemTables, t \in {0, MaxTime}, e \in {None, "e1"} :
          RecordFrequencyMulti(<< <<"m1", k :> items>> >>, to_datetime(t), e)
    \/ \E k \in Keys, t \in {0, MaxTime} :
          Incr("m1", k, to_datetime(t), 1, None)
    \/ \E d \in Keys, E \in {{}, {"e1"}} :
          \E s \in Keys \ {d} : MergeFrequencies("m1", d, <<s>>, E)

SpecFrequencies == Init /\ [][NextFrequencies]_vars

\* the sum of the scores several keys hold for a member at a bucket
RECURSIVE SumScores(_, _, _, _, _, _)
SumScores(store, model, ks, environment_id, b, member) ==
    IF ks = {} THEN 0
    ELSE LET k == CHOOSE x \in ks : TRUE
         IN  Score(CounterAt(store, <<model, k, environment_id>>, b), member)
             + SumScores(store, model, ks \ {k}, environment_id, b, member)

\* C9: after merge_frequencies(model, destination, sources) with the
\* destination not among the sources, at every bucket and for every member the
\* destination's score is its previous score plus the sum of the sources'
\* scores, and get_most_frequent returns no member for any source.
C9_FrequencyMerge ==
    (last.op = "merge_frequencies" /\ last.environment_ids = {}
       /\ last.destination \notin SeqRange(last.sources))
    => /\ last.error = "none"
       /\ \A b \in Buckets, x \in Members :
             Score(CounterAt(frequencies, <<last.model, last.destination, None>>, b), x)
             = Score(CounterAt(pre.frequencies,
                               <<last.model, last.destination, None>>, b), x)
               + SumScores(pre.frequencies, last.model, SeqRange(last.sources), None, b, x)
       /\ \A s \in SeqRange(last.sources), r \in Ranges, g \in Granularities :
             DOMAIN most_frequent_counter(frequencies, last.model, s, to_datetime(r[1]),
                                          to_datetime(r[2]), g, None) = {}

-----------------------------------------------------------------------------
(* Records and union reads over key lists *)

NextDistinct ==
    \/ \E k \in Keys, v \in MemberSets, t \in Times :
          Record("m1", k, v, to_datetime(t), None)
    \/ \E ks \in {<<"A">>, <<"A", "B">>, <<"A", "A">>}, g \in Granularities,
          r \in {<<0, 1>>, <<0, MaxTime + 1>>} :
          GetDistinctCountsUnion("m1", ks, to_datetime(r[1]), to_datetime(r[2]), g, None)

SpecDistinct == Init /\ [][NextDistinct]_vars

\* what get_distinct_counts_totals(model, [keys[i]], ...) returns for the key
TotalOf(keys, i) ==
    get_distinct_counts_totals(sets, last.model, {keys[i]}, last.start, last.end,
                               last.rollup, last.environment_id)[keys[i]]

RECURSIVE SumTotals(_, _)
SumTotals(keys, i) ==
    IF i > Len(keys) THEN 0 ELSE TotalOf(keys, i) + SumTotals(keys, i + 1)

\* the members recorded for a key in the buckets of the range of the last call
RangeMembers(key) ==
    UNION {MembersAt(sets, <<last.model, key, last.environment_id>>, b) :
             b \in EpochsIn(last.rollup, to_timestamp(last.start), to_timestamp(last.end))}

\* C11 (amended): get_distinct_counts_union over a key list is at most the sum
\* over the list of get_distinct_counts_totals of each key, and equal to it
\* exactly when the member sets of the list's entries over the range are
\* pairwise disjoint, a key listed twice counting as two entries (it
\* overlaps itself unless its member set is empty).
C11_DistinctUnionBound ==
    (last.op = "get_distinct_counts_union" /\ last.error = "none")
    => /\ last.result <= SumTotals(last.keys, 1)
       /\ (last.result = SumTotals(last.keys, 1))
          <=> (\A i \in DOMAIN last.keys, j \in DOMAIN last.keys :
                 i # j => RangeMembers(last.keys[i]) \cap RangeMembers(last.keys[j]) = {})

\* a union read over two keys that share a member, and one over disjoint keys
C11_Witness ==
    /\ last.op = "get_distinct_counts_union" /\ last.keys = <<"A", "B">>
    /\ RangeMembers("A") \cap RangeMembers("B") # {}
    /\ RangeMembers("A") # RangeMembers("B")
    /\ last.result < SumTotals(last.keys, 1)

\* no key occurs twice in the list
NoRepeatedKey(keys) == \A i \in DOMAIN keys, j \in DOMAIN keys : i # j => keys[i] # keys[j]

\* C11 as stated: the union is at most the sum of the totals, with equality
\* exactly when the keys' member sets are pairwise disjoint and the key list
\* has no repeated key.
C11_Original ==
    (last.op = "get_distinct_counts_union" /\ last.error = "none")
    => /\ last.result <= SumTotals(last.keys, 1)
       /\ (last.result = SumTotals(last.keys, 1))
          <=> /\ NoRepeatedKey(last.keys)
              /\ \A k1 \in SeqRange(last.keys), k2 \in SeqRange(last.keys) :
                    k1 # k2 => RangeMembers(k1) \cap RangeMembers(k2) = {}

-----------------------------------------------------------------------------
(* Frequency records and top-k reads *)

TopTables ==
    {[m \in {x} |-> IF x = "u1" THEN 1 ELSE 2] : x \in FrequencyMembers}
    \cup {[m \in FrequencyMembers |-> IF m = "u1" THEN 1 ELSE 2]}

NextTop ==
    \/ \E k \in Keys, items \in TopTables, t \in {0, MaxTime} :
          RecordFrequencyMulti(<< <<"m1", [x \in {k} |-> items]>> >>, to_datetime(t), None)
    \/ \E k \in Keys, r \in {<<0, 1, 2>>, <<0, MaxTime + 1, 2>>, <<0, MaxTime + 1, 4>>},
          limit \in {NoLimit, <<0>>, <<1>>, <<2>>} :
          GetMostFrequent("m1", <<k>>, to_datetime(r[1]), to_datetime(r[2]), r[3], limit, None)
    \/ GetMostFrequent("m1", <<"A", "B">>, to_datetime(0), to_datetime(MaxTime + 1), 2,
                       <<1>>, None)

SpecTop == Init /\ [][NextTop]_vars

\* the buckets of the range of the last call
LastEpochs == EpochsIn(last.rollup, to_timestamp(last.start), to_timestamp(last.end))

\* the members with a score in some bucket of the key in the range of the last call
Recorded(key) ==
    UNION {DOMAIN CounterAt(frequencies, <<last.model, key, last.environment_id>>, b) :
             b \in LastEpochs}

\* the sum of a member's scores over a set of buckets of a key
RECURSIVE Accumulated(_, _, _)
Accumulated(key, member, epochs) ==
    IF epochs = {} THEN 0
    ELSE LET b == CHOOSE x \in epochs : TRUE
         IN  Score(CounterAt(frequencies, <<last.model, key, last.environment_id>>, b), member)
             + Accumulated(key, member, epochs \ {b})

\* C12: get_most_frequent with limit n returns for each key min(n, number of
\* recorded members) pairs (all of them when the limit is omitted), each a
\* recorded member with its score accumulated over the buckets of the range,
\* no member twice, in order of non-increasing score, and every returned
\* score is at least the accumulated score of every member not returned.
C12_TopK ==
    (last.op = "get_most_frequent" /\ last.error = "none")
    => \A key \in SeqRange(last.keys) :
         LET res == last.result[key]
             n == Cardinality(Recorded(key))
             returned == {res[i][1] : i \in DOMAIN res}
         IN  /\ Len(res) = IF last.limit = NoLimit \/ last.limit[1] > n THEN n
                           ELSE last.limit[1]
             /\ \A i \in DOMAIN res :
                  /\ res[i][1] \in Recorded(key)
                  /\ res[i][2] = Accumulated(key, res[i][1], LastEpochs)
                  /\ \A j \in DOMAIN res : i < j => res[i][2] >= res[j][2]
                  /\ \A j \in DOMAIN res : i # j => res[i][1] # res[j][1]
                  /\ \A m \in Recorded(key) \ returned :
                       res[i][2] >= Accumulated(key, m, LastEpochs)

\* a limit of 2 on three members recorded over two buckets, the scores differing
C12_Witness ==
    /\ last.op = "get_most_frequent" /\ last.keys = <<"A">> /\ last.limit = <<2>>
    /\ Cardinality(Recorded("A")) = 3
    /\ Len(last.result["A"]) = 2
    /\ last.result["A"][1][2] > last.result["A"][2][2]
    /\ \E b1 \in LastEpochs, b2 \in LastEpochs :
         /\ b1 # b2
         /\ CounterAt(frequencies, <<"m1", "A", None>>, b1) # EmptyCounter
         /\ CounterAt(frequencies, <<"m1", "A", None>>, b2) # EmptyCounter

-----------------------------------------------------------------------------
(* Writes to the three stores and every range read, also with end before start *)

ReadRanges == {<<0, 1>>, <<0, MaxTime + 1>>, <<3, 1>>}

NextReads ==
    \/ \E t \in {0, MaxTime} : Incr("m1", "A", to_datetime(t), 1, None)
    \/ \E t \in {0, MaxTime} : Record("m1", "A", {"u1"}, to_datetime(t), None)
    \/ \E t \in {0, MaxTime} :
          RecordFrequencyMulti(<< <<"m1", [k \in {"A"} |-> [x \in {"u1"} |-> 1]]>> >>,
                               to_datetime(t), None)
    \/ \E k \in Keys, r \in ReadRanges, g \in Granularities :
          GetRange("m1", {k}, to_datetime(r[1]), to_datetime(r[2]), TRUE, g, None)
    \/ \E k \in Keys, r \in ReadRanges, g \in Granularities :
          GetDistinctCountsSeries("m1", <<k>>, to_datetime(r[1]), to_datetime(r[2]), g, None)
    \/ \E k \in Keys, r \in ReadRanges, g \in Granularities :
          GetDistinctCountsTotals("m1", <<k>>, to_datetime(r[1]), to_datetime(r[2]), g, None)
    \/ \E k \in Keys, r \in ReadRanges, g \in Granularities :
          GetDistinctCountsUnion("m1", <<k>>, to_datetime(r[1]), to_datetime(r[2]), g, None)
    \/ \E k \in Keys, r \in ReadRanges, g \in Granularities :
          GetMostFrequent("m1", <<k>>, to_datetime(r[1]), to_datetime(r[2]), g, NoLimit, None)

SpecReads == Init /\ [][NextReads]_vars

RangeReads == {"get_range", "get_distinct_counts_series", "get_distinct_counts_totals",
               "get_distinct_counts_union", "get_most_frequent"}

InvalidRange(start, end) == to_timestamp(end) < to_timestamp(start)

\* C13: a range read called with end earlier than start fails with an
\* InvalidRange error, returns no result, and leaves the stores unchanged.
C13_InvalidRangeIsError ==
    (last.op \in RangeReads /\ InvalidRange(last.start, last.end))
    => /\ last.error = "InvalidRange"
       /\ Stores = pre

\* the key entries and the buckets that exist in a store
KeysOf(store) == DOMAIN store
BucketsOf(store) == UNION {{<<k, b>> : b \in DOMAIN store[k]} : k \in DOMAIN store}

\* C14: a read operation creates no bucket and no key entry: the key entries
\* and the buckets of the counter, set and frequency stores are after the
\* read those that existed before it.
C14_ReadsCreateNothing ==
    last.op \in RangeReads
    => /\ KeysOf(data) = KeysOf(pre.data) /\ BucketsOf(data) = BucketsOf(pre.data)
       /\ KeysOf(sets) = KeysOf(pre.sets) /\ BucketsOf(sets) = BucketsOf(pre.sets)
       /\ KeysOf(frequencies) = KeysOf(pre.frequencies)
       /\ BucketsOf(frequencies) = BucketsOf(pre.frequencies)

-----------------------------------------------------------------------------
(* Increments and frequency records of any sign, and the reads of both *)

NextAmounts ==
    \/ \E k \in Keys, t \in Times, c \in {-1, 0, 1}, e \in {None, "e1"} :
          Incr("m1", k, to_datetime(t), c, e)
    \/ \E t \in Times, s \in {-1, 1} :
          RecordFrequencyMulti(<< <<"m1", [k \in {"A"} |-> [x \in {"u1"} |-> s]]>> >>,
                               to_datetime(t), None)
    \/ \E r \in ShortRanges, g \in Granularities :
          GetRange("m1", {"A"}, to_datetime(r[1]), to_datetime(r[2]), TRUE, g, None)
    \/ \E r \in ShortRanges, g \in Granularities :
          GetFrequencySeries("m1", [k \in {"A"} |-> Members], to_datetime(r[1]),
                             to_datetime(r[2]), g, None)

SpecAmounts == Init /\ [][NextAmounts]_vars

\* increments of any environment, also of nothing, and reads of the counters
NextIncrFrame ==
    \/ \E k \in Keys, t \in Times, c \in {0, 1}, e \in {None, "e1"} :
          Incr("m1", k, to_datetime(t), c, e)
    \/ \E r \in ShortRanges, g \in Granularities :
          GetRange("m1", {"A"}, to_datetime(r[1]), to_datetime(r[2]), TRUE, g, None)

SpecIncrFrame == Init /\ [][NextIncrFrame]_vars

\* C15: incr(model, key, t, c, e) adds c to the bucket at the epoch of t of
\* every granularity, for (key, e) and (key, aggregate), once per coordinate
\* also when e is the aggregate, and changes nothing else: what a read
\* returns at any granularity and epoch of any model, key and environment is
\* what it returned before, plus c at the coordinates of the call, and the
\* set and frequency stores are unchanged.
C15_IncrTouchesEveryGranularityOnce ==
    last.op = "incr"
    => /\ sets = pre.sets /\ frequencies = pre.frequencies
       /\ \A m \in Models, k \in Keys, e \in Envs, g \in Granularities :
            \A b \in Epochs(g) :
              ReadAt(data, m, k, g, b, e)
                = ReadAt(pre.data, m, k, g, b, e)
                  + (IF /\ m = last.model /\ k = last.key
                        /\ e \in {last.environment_id, None}
                        /\ b = normalize_to_rollup(last.timestamp, g)
                     THEN last.count ELSE 0)

-----------------------------------------------------------------------------
(* Set and frequency records that carry a concrete environment *)

DualTables == {[x \in {"u1"} |-> 1], [x \in {"u2"} |-> 2], [x \in Members |-> 1]}

NextDual ==
    \/ \E v \in MemberSets, t \in {0, MaxTime}, e \in ConcreteEnvs :
          Record("m1", "A", v, to_datetime(t), e)
    \/ \E items \in DualTables, t \in {0, MaxTime}, e \in ConcreteEnvs :
          RecordFrequencyMulti(<< <<"m1", [k \in {"A"} |-> items]>> >>, to_datetime(t), e)

SpecDual == Init /\ [][NextDual]_vars

\* the sum of the scores the environments in es hold for a member at a bucket
RECURSIVE SumEnvScores(_, _, _, _, _)
SumEnvScores(model, key, b, member, es) ==
    IF es = {} THEN 0
    ELSE LET e == CHOOSE x \in es : TRUE
         IN  Score(CounterAt(frequencies, <<model, key, e>>, b), member)
             + SumEnvScores(model, key, b, member, es \ {e})

\* C16: after records that each carry a concrete environment, at every
\* model, key and bucket the aggregate set is the union of the sets of the
\* environments, and the aggregate frequency table holds the members the
\* environments' tables hold, each with the sum of its scores in them.
C16_DualWriteSetsAndFrequencies ==
    \A m \in Models, k \in Keys, b \in Buckets :
       /\ MembersAt(sets, <<m, k, None>>, b)
            = UNION {MembersAt(sets, <<m, k, e>>, b) : e \in ConcreteEnvs}
       /\ DOMAIN CounterAt(frequencies, <<m, k, None>>, b)
            = UNION {DOMAIN CounterAt(frequencies, <<m, k, e>>, b) : e \in ConcreteEnvs}
       /\ \A member \in FrequencyMembers :
            Score(CounterAt(frequencies, <<m, k, None>>, b), member)
              = SumEnvScores(m, k, b, member, ConcreteEnvs)

\* two environments hold different sets at a bucket, and an environment and
\* the aggregate hold a score there
C16_Witness ==
    \E b \in Buckets :
       /\ MembersAt(sets, <<"m1", "A", "e1">>, b) # {}
       /\ MembersAt(sets, <<"m1", "A", "e2">>, b) # {}
       /\ MembersAt(sets, <<"m1", "A", "e1">>, b) # MembersAt(sets, <<"m1", "A", "e2">>, b)
       /\ \E e \in ConcreteEnvs :
            /\ Score(CounterAt(frequencies, <<"m1", "A", e>>, b), "u1") > 0
            /\ Score(CounterAt(frequencies, <<"m1", "A", None>>, b), "u1") > 0

-----------------------------------------------------------------------------
(* Negative amounts, under SpecAmounts *)

\* C17: incr with a negative count and record_frequency_multi with a negative
\* score are not rejected and reduce the value of the bucket of the timestamp,
\* at every granularity and for the environment and the aggregate, by exactly
\* that amount, without clamping at zero: this is what get_range and
\* get_frequency_series report there afterwards.
C17_NegativeAmounts ==
    /\ (last.op = "incr" /\ last.count < 0)
       => /\ last.error = "none"
          /\ \A g \in Granularities, e \in {last.environment_id, None} :
               LET b == normalize_to_rollup(last.timestamp, g)
               IN  ReadAt(data, last.model, last.key, g, b, e)
                     = ReadAt(pre.data, last.model, last.key, g, b, e) + last.count
    /\ last.op = "record_frequency_multi"
       => /\ last.error = "none"
          /\ \A i \in DOMAIN last.requests, g \in Granularities,
                e \in {last.environment_id, None} :
               \A key \in DOMAIN last.requests[i][2] :
                 \A member \in DOMAIN last.requests[i][2][key] :
                   LET b == normalize_to_rollup(last.timestamp, g)
                       k == <<last.requests[i][1], key, e>>
                       score == last.requests[i][2][key][member]
                   IN  score < 0
                       => Score(CounterAt(frequencies, k, b), member)
                            = Score(CounterAt(pre.frequencies, k, b), member) + score

-----------------------------------------------------------------------------
(* Frequency records and the reads for supplied members *)

NextFrequencyReads ==
    \/ \E x \in Members, t \in Times :
          RecordFrequencyMulti(<< <<"m1", [k \in {"A"} |-> [y \in {x} |-> 1]]>> >>,
                               to_datetime(t), None)
    \/ \E ms \in {{"u1"}, Members}, r \in ShortRanges, g \in Granularities :
          GetFrequencySeries("m1", [k \in {"A"} |-> ms], to_datetime(r[1]),
                             to_datetime(r[2]), g, None)
    \/ \E ms \in {{"u1"}, Members}, r \in ShortRanges, g \in Granularities :
          GetFrequencyTotals("m1", [k \in {"A"} |-> ms], to_datetime(r[1]),
                             to_datetime(r[2]), g, None)

SpecFrequencyReads == Init /\ [][NextFrequencyReads]_vars

\* the sum of a member's scores over the points of a series, from the i-th on
RECURSIVE SumSeries(_, _, _)
SumSeries(series, member, i) ==
    IF i > Len(series) THEN 0
    ELSE series[i][2][member] + SumSeries(series, member, i + 1)

\* C18: get_frequency_series returns for every key of items one point per
\* bucket epoch of the series, in ascending order, whose scores have exactly
\* the members supplied for the key, with score 0 for a member never recorded
\* in that bucket; get_frequency_totals gives for each supplied member the sum
\* of its scores over the points of the series.
C18_FrequencySeriesZeroFill ==
    /\ last.op = "get_frequency_series"
       => \A key \in DOMAIN last.items :
            LET res == last.result[key]
            IN  /\ {res[i][1] : i \in DOMAIN res} = LastEpochs
                /\ \A i \in DOMAIN res, j \in DOMAIN res : i < j => res[i][1] < res[j][1]
                /\ \A i \in DOMAIN res :
                     /\ DOMAIN res[i][2] = last.items[key]
                     /\ \A member \in last.items[key] :
                          <<last.model, key, last.environment_id, last.rollup, res[i][1],
                            member>> \notin written
                          => res[i][2][member] = 0
    /\ last.op = "get_frequency_totals"
       => \A key \in DOMAIN last.items :
            LET series == get_frequency_series(pre.frequencies, last.model, last.items,
                                               last.start, last.end, last.rollup,
                                               last.environment_id)[key]
            IN  \A member \in last.items[key] :
                  Score(last.result[key], member) = SumSeries(series, member, 1)

-----------------------------------------------------------------------------
(* One thread calling incr, time and again, and one calling merge once *)

NextThreads ==
    \/ \E k \in Keys, t \in {0, 2}, c \in {1, 2} : IncrBegin("m1", k, to_datetime(t), c)
    \/ IncrRef
    \/ IncrRead
    \/ IncrWrite
    \/ MergeBegin("m1", "B", "A")
    \/ MergeDest
    \/ MergePop
    \/ MergeItems
    \/ MergeRead
    \/ MergeWrite

SpecThreads == Init /\ [][NextThreads]_vars

\* the sum of the counts a dict holds in the buckets bs
RECURSIVE SumBuckets(_, _)
SumBuckets(m, bs) ==
    IF bs = {} THEN 0
    ELSE LET b == CHOOSE x \in bs : TRUE
         IN  m[b] + SumBuckets(m, bs \ {b})

\* the total the store holds for a key, over all its buckets
TotalOfKey(key) ==
    LET k == <<"m1", key, None>>
    IN  IF k \in DOMAIN data THEN SumBuckets(data[k], DOMAIN data[k]) ELSE 0

\* no call is under way
Quiescent == threads.incr.pc \in {"idle", "done"} /\ threads.merge.pc \in {"idle", "done"}

\* C19: when merge and incr are serialized (no call began while another was
\* under way), no increment is lost: once the calls have returned, the totals
\* of destination and source together are the sum of all increment amounts,
\* each written once per rollup.
C19_SerializedLosesNothing ==
    (Quiescent /\ ~threads.overlap)
    => TotalOfKey("A") + TotalOfKey("B") = Len(rollups) * threads.amount

\* an incr on the source interleaved with the merge, both returned, and the
\* totals of destination and source are less than the sum of the amounts
C19_Witness ==
    /\ threads.incr.pc = "done" /\ threads.merge.pc = "done"
    /\ threads.overlap
    /\ threads.incr.key = threads.merge.source
    /\ TotalOfKey("A") + TotalOfKey("B") < Len(rollups) * threads.amount

-----------------------------------------------------------------------------
(* The writes, merges and deletes of the three stores side by side *)

NextStores ==
    \/ \E k \in Keys, t \in {0, MaxTime} : Incr("m1", k, to_datetime(t), 1, None)
    \/ Merge("m1", "B", <<"A">>, {})
    \/ \E r \in {<<0, 1>>, <<0, MaxTime + 1>>} :
          Delete({"m1"}, {"A"}, to_datetime(r[1]), to_datetime(r[2]), {})
    \/ \E k \in Keys, t \in {0, MaxTime} : Record("m1", k, {"u1"}, to_datetime(t), None)
    \/ MergeDistinctCounts("m1", "B", <<"A">>, {})
    \/ \E r \in {<<0, 1>>, <<0, MaxTime + 1>>} :
          DeleteDistinctCounts({"m1"}, {"A"}, to_datetime(r[1]), to_datetime(r[2]), {})
    \/ \E k \in Keys, t \in {0, MaxTime} :
          RecordFrequencyMulti(<< <<"m1", [x \in {k} |-> [y \in {"u1"} |-> 1]]>> >>,
                               to_datetime(t), None)
    \/ MergeFrequencies("m1", "B", <<"A">>, {})
    \/ \E r \in {<<0, 1>>, <<0, MaxTime + 1>>} :
          DeleteFrequencies({"m1"}, {"A"}, to_datetime(r[1]), to_datetime(r[2]), {})

SpecStores == Init /\ [][NextStores]_vars

CounterOps == {"incr", "merge", "delete"}
SetOps == {"record", "merge_distinct_counts", "delete_distinct_counts"}
FrequencyOps == {"record_frequency_multi", "merge_frequencies", "delete_frequencies"}

\* C20: no set operation and no frequency operation changes a counter value
\* or removes a counter key, and no counter operation changes a set or a
\* frequency table.
C20_StoreIsolation ==
    /\ last.op \in SetOps \cup FrequencyOps
       => \A k \in DOMAIN pre.data :
            /\ k \in DOMAIN data
            /\ \A b \in DOMAIN pre.data[k] : Value(data, k, b) = pre.data[k][b]
    /\ last.op \in CounterOps
       => sets = pre.sets /\ frequencies = pre.frequencies

-----------------------------------------------------------------------------
(* The child relations of a group, for every registration of extra dependencies *)

GroupIds == {"g1", "g2", "g3"}

\* the relations plugins may have registered for Group
ExtraDependencies == {"PluginRelationA", "PluginRelationB", "PluginRelationC"}

\* every order in which any of them may be registered and iterated
DependencyLists ==
    {d \in UNION {[1 .. n -> ExtraDependencies] : n \in 0 .. Cardinality(ExtraDependencies)} :
        \A i \in DOMAIN d, j \in DOMAIN d : i # j => d[i] # d[j]}

NextRelations ==
    \E instance \in GroupIds, dependencies \in DependencyLists :
        GetChildRelations(instance, dependencies)

SpecRelations == Init /\ [][NextRelations]_vars

\* C21: in the list get_child_relations returns, the GroupHash relation is
\* the first element and the Event relation is the last, whatever extra
\* dependencies are registered for Group.
C21_ChildRelationOrder ==
    last.op = "get_child_relations"
    => /\ last.result[1].model = "GroupHash"
       /\ last.result[Len(last.result)].model = "Event"

-----------------------------------------------------------------------------
(* A SourceCache under adds, errors and aliases *)

Urls == {"a", "b", "c"}

Sources ==
    {<<[type |-> "text", text |-> "s1"], None>>,
     <<[type |-> "view", bytes |-> [codec |-> "utf-8", text |-> "s2"]], None>>,
     <<[type |-> "bytes", codec |-> "latin-1", text |-> "s3"], "latin-1">>}

NextSourceCache ==
    \/ \E url \in Urls, s \in Sources : Add(url, s[1], s[2])
    \/ \E url \in Urls : AddError(url, "error")
    \/ \E u1 \in Urls, u2 \in Urls : Alias(u1, u2)

SpecSourceCache == Init /\ [][NextSourceCache]_vars

\* C22: after alias(u1, u2) with u1 # u2, u2 resolves to the entry of u1:
\* get, containment and get_errors agree for the two; and a url whose source
\* was stored with add stays contained in the cache after later alias calls.
C22_AliasResolution ==
    /\ (last.op = "alias" /\ last.u1 # last.u2)
       => /\ get(sourcecache, last.u2) = get(sourcecache, last.u1)
          /\ contains(sourcecache, last.u2) = contains(sourcecache, last.u1)
          /\ get_errors(sourcecache, last.u2) = get_errors(sourcecache, last.u1)
    /\ \A url \in sourcecache.added : contains(sourcecache, url)

-----------------------------------------------------------------------------
(* The auth provider endpoint over every small database *)

OrganizationOf(om) == IF om = "om3" THEN "o2" ELSE "o1"

\* the flags a member starts with: any for the two members of o1, none or
\* all for the member of o2
FlagsOf(om) == IF om = "om3" THEN {0, AllBits} ELSE 0 .. AllBits

\* every organization has a provider; the feature is on for any of them
Databases ==
    {[NoRows EXCEPT
         !.features = features,
         !.providers = [o \in Orgs |-> [id |-> <<"provider", o>>, allow_unlinked |-> FALSE]],
         !.default_role = [o \in Orgs |-> "member"],
         !.members = [om \in OrganizationMembers |->
                         [organization |-> OrganizationOf(om), flags |-> flags[om]]]] :
        features \in SUBSET Orgs,
        flags \in {f \in [OrganizationMembers -> 0 .. AllBits] :
                      \A om \in OrganizationMembers : f[om] \in FlagsOf(om)}}

RequestData ==
    {[valid |-> FALSE],
     [valid |-> TRUE, require_link |-> TRUE, default_role |-> None],
     [valid |-> TRUE, require_link |-> FALSE, default_role |-> "admin"]}

InitSso ==
    /\ Constructed
    /\ sso \in Databases

NextSso ==
    \/ \E organization \in Orgs : ProviderGet(organization)
    \/ \E organization \in Orgs, request_data \in RequestData :
           ProviderPut(organization, request_data)
    \/ \E organization \in Orgs, is_sqlite \in BOOLEAN :
           ProviderDelete(organization, is_sqlite)

SpecSso == InitSso /\ [][NextSso]_vars

HasBit(flags, name) == (flags \div Bit(name)) % 2 = 1

\* the rows of a database, without the statements that led to them
Rows(db) == [db EXCEPT !.writes = << >>]

Position(writes, statement, table) ==
    {i \in DOMAIN writes : writes[i].statement = statement /\ writes[i].table = table}

EndpointOps == {"get", "put", "delete"}

\* C23: a DELETE on an organization with the SSO feature and a provider
\* records the SSO_DISABLE audit entry before it deletes the provider, and
\* leaves the provider removed, sso:linked and sso:invalid cleared on every
\* member of the organization, every other flag bit and every member of
\* another organization as before, with the same rows on the per-row
\* (sqlite) branch and the bulk-update branch; with the feature off GET, PUT
\* and DELETE answer 403 and change no row.
C23_DisableProvider ==
    /\ (/\ last.op = "delete"
        /\ has(last.before, last.organization)
        /\ last.organization \in DOMAIN last.before.providers)
       => LET organization == last.organization
              before == last.before
              auth_provider == before.providers[organization]
              entry == sso.audit[Len(sso.audit)]
          IN /\ last.status = 204
             /\ Len(sso.audit) = Len(before.audit) + 1
             /\ entry.event = "SSO_DISABLE"
             /\ entry.organization = organization
             /\ entry.target_object = auth_provider.id
             /\ \E i \in Position(sso.writes, "insert", "AuditLogEntry"),
                   j \in Position(sso.writes, "delete", "AuthProvider") :
                    /\ i < j
                    /\ sso.writes[i].row = auth_provider.id
                    /\ sso.writes[j].row = auth_provider.id
             /\ organization \notin DOMAIN sso.providers
             /\ \A o \in DOMAIN before.providers \ {organization} :
                    /\ o \in DOMAIN sso.providers
                    /\ sso.providers[o] = before.providers[o]
             /\ DOMAIN sso.members = DOMAIN before.members
             /\ \A om \in DOMAIN before.members :
                    IF before.members[om].organization = organization
                    THEN /\ ~HasBit(sso.members[om].flags, "sso:linked")
                         /\ ~HasBit(sso.members[om].flags, "sso:invalid")
                         /\ HasBit(sso.members[om].flags, "other")
                                = HasBit(before.members[om].flags, "other")
                         /\ sso.members[om].organization = organization
                    ELSE sso.members[om] = before.members[om]
             /\ Rows(provider_delete(Request(before), organization, TRUE).db)
                    = Rows(provider_delete(Request(before), organization, FALSE).db)
             /\ Rows(sso) = Rows(provider_delete(Request(before), organization,
                                                  ~last.is_sqlite).db)
    /\ (last.op \in EndpointOps /\ ~has(last.before, last.organization))
       => /\ last.status = 403
          /\ Rows(sso) = Rows(last.before)
          /\ sso.writes = << >>

\* a DELETE of either branch cleared both flags of a member that had every
\* bit set, next to a member of another organization with its flags set
C23_Witness ==
    /\ last.op = "delete"
    /\ last.status = 204
    /\ \E om \in DOMAIN sso.members, other \in DOMAIN sso.members :
           /\ sso.members[om].organization = last.organization
           /\ last.before.members[om].flags = AllBits
           /\ sso.members[om].flags = Bit("other")
           /\ sso.members[other].organization # last.organization
           /\ sso.members[other].flags = AllBits

====
